---- MODULE Spec2Model ----
(***************************************************************************)
(* The iptables Table reconciler of felix (src/unnamed/part_000, package   *)
(* iptables, type Table): desired chains and rule insertions, the cache of *)
(* dataplane hashes, the dirty sets, and Apply with its reload             *)
(* (iptables-save), its transaction (iptables-restore) and its retries.    *)
(*                                                                         *)
(* The kernel table is the variable dataplane; other processes write to it *)
(* through the External* actions.  A rule line of the dataplane keeps what *)
(* readHashesFrom looks at: the first comment (prefix and hash) and the    *)
(* rest of the rule.  Clock values and timer intervals count quarter hours *)
(* (Hour == 4); the retry sleeps count milliseconds.                       *)
(***************************************************************************)
EXTENDS Integers, Sequences, FiniteSets, TLC

(***************************************************************************)
(* Bounds of the model.                                                    *)
(***************************************************************************)
MaxRules == 2
MaxOps == 2
MaxExt == 1
MaxFail == 1
MaxSaveFail == 1
MaxTime == 2
NumSiblings == 1
MaxLines == 3
TimeHorizon == 4

(***************************************************************************)
(* Program constants.                                                      *)
(***************************************************************************)
ApplyRetries == 10
InitialBackoff == 1
SaveRetries == 3
SaveRetryDelay == 100
Hour == 4
ZeroTime == -1000

Name == "filter"
hashCommentPrefix == "cali:"

tableToKernelChains(table) ==
    CASE table = "filter" -> {"INPUT", "FORWARD", "OUTPUT"}
      [] table = "nat" -> {"PREROUTING", "INPUT", "OUTPUT", "POSTROUTING"}
      [] table = "mangle" -> {"PREROUTING", "INPUT", "FORWARD", "OUTPUT", "POSTROUTING"}
      [] table = "raw" -> {"PREROUTING", "OUTPUT"}
      [] OTHER -> {}

(***************************************************************************)
(* The chain names of the model and the result of ourChainsRegexp          *)
(* (^(felix-|cali)) on each of them.                                       *)
(***************************************************************************)
OwnedNames == {"cali-a", "cali-b"}
ForeignNames == {"INPUT", "FORWARD", "OUTPUT", "DOCKER"}
ChainNames == OwnedNames \cup ForeignNames

ourChainsRegexp(chainName) == chainName \in {"cali-a", "cali-b"}

(***************************************************************************)
(* Rules are opaque match/action fragments.  "-j cali-old" and             *)
(* "an-old-rule" are what oldInsertRegexp matches: a jump to a historic    *)
(* prefix, and the extra cleanup pattern.                                  *)
(***************************************************************************)
RuleSet == {"r1", "r2"}
ForeignRule == "--src 1.2.3.4"
LegacyRules == {"-j cali-old", "an-old-rule"}

oldInsertRegexp(rule) == rule \in LegacyRules

(***************************************************************************)
(* Fingerprints.  EmptyHash is the Go "", OldInsertRule the sentinel.      *)
(***************************************************************************)
EmptyHash == <<>>
OldInsertRule == <<"OLD INSERT RULE">>

RuleHash(chainName, i, rule) == <<chainName, i, rule>>

RuleHashes(chainName, rules) ==
    [i \in 1..Len(rules) |-> RuleHash(chainName, i, rules[i])]

\* Faulty variant: the temporary chain is built without the chain's name.
calculateRuleInsertHashesUnnamed(chainName, rules) == RuleHashes("", rules)

calculateRuleInsertHashes(chainName, rules) == RuleHashes(chainName, rules)

RECURSIVE numEmptyStrings(_)
numEmptyStrings(strs) ==
    IF strs = <<>> THEN 0
    ELSE (IF Head(strs) = EmptyHash THEN 1 ELSE 0) + numEmptyStrings(Tail(strs))

(***************************************************************************)
(* Go slices: a nil slice and an empty slice differ for reflect.DeepEqual. *)
(* Lookup(m, k) is m[k] of a Go map of slices.                             *)
(***************************************************************************)
NilSlice == [isNil |-> TRUE, elems |-> <<>>]
Slice(s) == [isNil |-> FALSE, elems |-> s]
Lookup(m, k) == IF k \in DOMAIN m THEN Slice(m[k]) ELSE NilSlice
DeepEqual(a, b) == a.isNil = b.isNil /\ a.elems = b.elems

MapPut(m, k, v) == [x \in DOMAIN m \cup {k} |-> IF x = k THEN v ELSE m[x]]
\* Faulty variant: the key stays in the map.
MapDeleteNothing(m, k) == m

MapDelete(m, k) == [x \in DOMAIN m \ {k} |-> m[x]]
EmptyMap == [x \in {} |-> <<>>]

RulesOf(m, k) == IF k \in DOMAIN m THEN m[k] ELSE <<>>

(***************************************************************************)
(* The dataplane: chain name -> rule lines, each [prefix, hash, rule].     *)
(* iptables-save prints a declaration line per chain and an append line    *)
(* per rule, between lines that are neither.                               *)
(***************************************************************************)
RECURSIVE SetToSeq(_)
SetToSeq(S) ==
    IF S = {} THEN <<>>
    ELSE LET x == CHOOSE y \in S : TRUE IN <<x>> \o SetToSeq(S \ {x})

NoLine == [prefix |-> "", hash |-> EmptyHash, rule |-> ""]

SaveLine(kind, chainName, l) ==
    [kind |-> kind, chain |-> chainName, prefix |-> l.prefix, hash |-> l.hash,
     rule |-> l.rule]

RECURSIVE SaveDecls(_)
SaveDecls(names) ==
    IF names = <<>> THEN <<>>
    ELSE <<SaveLine("decl", Head(names), NoLine)>> \o SaveDecls(Tail(names))

RECURSIVE SaveAppends(_, _)
SaveAppends(dp, names) ==
    IF names = <<>> THEN <<>>
    ELSE [i \in 1..Len(dp[Head(names)]) |->
             SaveLine("append", Head(names), dp[Head(names)][i])]
         \o SaveAppends(dp, Tail(names))

SaveOutput(dp) ==
    LET names == SetToSeq(DOMAIN dp) IN
    <<SaveLine("other", "", NoLine)>> \o SaveDecls(names)
        \o SaveAppends(dp, names) \o <<SaveLine("other", "", NoLine)>>

(***************************************************************************)
(* readHashesFrom: one hash per append line; kind "decl" is a line that    *)
(* chainCreateRegexp matches, kind "append" one that appendRegexp matches. *)
(***************************************************************************)
\* Faulty variant: the pattern of old rules is tried before the hash comment.
LineHashOldFirst(line) ==
    IF oldInsertRegexp(line.rule) THEN OldInsertRule
    ELSE IF line.prefix = hashCommentPrefix /\ line.hash # EmptyHash THEN line.hash
    ELSE EmptyHash

LineHash(line) ==
    IF line.prefix = hashCommentPrefix /\ line.hash # EmptyHash THEN line.hash
    ELSE IF oldInsertRegexp(line.rule) THEN OldInsertRule
    ELSE EmptyHash

RECURSIVE readHashesFromLoop(_, _)
readHashesFromLoop(lines, hashes) ==
    IF lines = <<>> THEN hashes
    ELSE LET line == Head(lines) IN
         IF line.kind = "decl"
         THEN readHashesFromLoop(Tail(lines), MapPut(hashes, line.chain, <<>>))
         ELSE IF line.kind # "append"
         THEN readHashesFromLoop(Tail(lines), hashes)
         ELSE readHashesFromLoop(Tail(lines),
                  MapPut(hashes, line.chain,
                         RulesOf(hashes, line.chain) \o <<LineHash(line)>>))

\* Faulty variant: a declaration line is skipped like any other line.
readHashesFromAppendsOnly(lines) ==
    readHashesFromLoop(SelectSeq(lines, LAMBDA l : l.kind # "decl"), EmptyMap)

readHashesFrom(lines) == readHashesFromLoop(lines, EmptyMap)

attemptToGetHashesFromDataplane(dp) == readHashesFrom(SaveOutput(dp))

\* What readHashesFrom returns: (hashes, nil), or (nil, err) when the
\* scanner failed, whatever was parsed up to there.
ReadResult(returned, hashes, err) ==
    [returned |-> returned, err |-> err, hashesNil |-> err \/ ~returned,
     hashes |-> IF err \/ ~returned THEN EmptyMap ELSE hashes]

(***************************************************************************)
(* RestoreInputBuilder and the rendering of a rule.  A line of the input   *)
(* is [op, chain, num, prefix, hash, rule]; op "table" is the "*filter"    *)
(* opener, written with the first line of a transaction, and an empty      *)
(* transaction is dropped.                                                 *)
(***************************************************************************)
InLine(op, chainName, num, prefix, hash, rule) ==
    [op |-> op, chain |-> chainName, num |-> num, prefix |-> prefix,
     hash |-> hash, rule |-> rule]

EmptyBuffer == [buf |-> <<>>, txnOpenerWritten |-> FALSE]

StartTransaction(b) == [b EXCEPT !.txnOpenerWritten = FALSE]

maybeWriteTransactionOpener(b) ==
    IF b.txnOpenerWritten THEN b
    ELSE [buf |-> Append(b.buf, InLine("table", Name, 0, "", EmptyHash, "")),
          txnOpenerWritten |-> TRUE]

WriteLine(b, line) ==
    LET o == maybeWriteTransactionOpener(b) IN [o EXCEPT !.buf = Append(o.buf, line)]

WriteForwardReference(b, chainName) ==
    WriteLine(b, InLine("fwd", chainName, 0, "", EmptyHash, ""))

EndTransaction(b) ==
    IF b.txnOpenerWritten
    THEN [buf |-> Append(b.buf, InLine("COMMIT", "", 0, "", EmptyHash, "")),
          txnOpenerWritten |-> FALSE]
    ELSE b

Empty(b) == b.buf = <<>>

\* Faulty variant: the comment is written without the hash prefix.
commentFragNoPrefix(hash) == [prefix |-> "", hash |-> hash]

commentFrag(hash) == [prefix |-> hashCommentPrefix, hash |-> hash]

RenderAppend(rule, chainName, prefixFrag) ==
    InLine("A", chainName, 0, prefixFrag.prefix, prefixFrag.hash, rule)

RenderInsert(rule, chainName, prefixFrag) ==
    InLine("I", chainName, 0, prefixFrag.prefix, prefixFrag.hash, rule)

RenderReplace(rule, chainName, ruleNum, prefixFrag) ==
    InLine("R", chainName, ruleNum, prefixFrag.prefix, prefixFrag.hash, rule)

deleteRule(chainName, ruleNum) == InLine("D", chainName, ruleNum, "", EmptyHash, "")

deleteChain(chainName) == InLine("X", chainName, 0, "", EmptyHash, "")

(***************************************************************************)
(* iptables-restore --noflush on the input: each block is committed at its *)
(* COMMIT line; a line that cannot be applied fails the command and leaves *)
(* what earlier blocks committed.                                          *)
(***************************************************************************)
DpLine(l) == [prefix |-> l.prefix, hash |-> l.hash, rule |-> l.rule]

RemoveAt(s, n) == SubSeq(s, 1, n - 1) \o SubSeq(s, n + 1, Len(s))

LineApplies(working, l) ==
    CASE l.op \in {"table", "COMMIT", "fwd"} -> TRUE
      [] l.op \in {"A", "I"} -> l.chain \in DOMAIN working
      [] l.op \in {"R", "D"} ->
            l.chain \in DOMAIN working /\ l.num \in 1..Len(working[l.chain])
      [] l.op = "X" ->
            /\ l.chain \in DOMAIN working
            /\ working[l.chain] = <<>>
            /\ l.chain \notin tableToKernelChains(Name)
      [] OTHER -> FALSE

ApplyLine(working, l) ==
    CASE l.op = "fwd" -> MapPut(working, l.chain, <<>>)
      [] l.op = "A" -> [working EXCEPT ![l.chain] = Append(@, DpLine(l))]
      [] l.op = "I" -> [working EXCEPT ![l.chain] = <<DpLine(l)>> \o @]
      [] l.op = "R" -> [working EXCEPT ![l.chain][l.num] = DpLine(l)]
      [] l.op = "D" -> [working EXCEPT ![l.chain] = RemoveAt(@, l.num)]
      [] l.op = "X" -> MapDelete(working, l.chain)
      [] OTHER -> working

RECURSIVE RestoreLines(_, _, _)
RestoreLines(committed, working, lines) ==
    IF lines = <<>> THEN [err |-> FALSE, dp |-> committed]
    ELSE LET l == Head(lines) IN
         IF ~LineApplies(working, l) THEN [err |-> TRUE, dp |-> committed]
         ELSE IF l.op = "table" THEN RestoreLines(committed, committed, Tail(lines))
         ELSE IF l.op = "COMMIT" THEN RestoreLines(working, working, Tail(lines))
         ELSE RestoreLines(committed, ApplyLine(working, l), Tail(lines))

RestoreExec(dp, input) == RestoreLines(dp, dp, input)

VARIABLES
    \* Table
    chainToInsertedRules, dirtyInserts, chainNameToChain, dirtyChains,
    inSyncWithDataPlane, chainToDataplaneHashes,
    nftablesMode, insertMode,
    lastReadTime, lastWriteTime, postWriteInterval, refreshInterval,
    \* the running Apply call
    pc, retries, backoffTime, saveRetries, retryDelay,
    restoreInput, newHashes, restoreErr,
    \* the world
    dataplane, now, calicoXtablesLock, sibling,
    opsLeft, extLeft, failLeft, saveFailLeft,
    \* a call of readHashesFrom on its own: the reader's lines, the result
    saveOutput, readResult,
    \* history
    hist

tableVars == <<chainToInsertedRules, dirtyInserts, chainNameToChain, dirtyChains,
               inSyncWithDataPlane, chainToDataplaneHashes>>
cfgVars == <<nftablesMode, insertMode, refreshInterval>>
timeVars == <<lastReadTime, lastWriteTime, postWriteInterval>>
applyVars == <<pc, retries, backoffTime, saveRetries, retryDelay,
               restoreInput, newHashes, restoreErr>>
budgetVars == <<opsLeft, extLeft, failLeft, saveFailLeft>>
worldVars == <<dataplane, now, calicoXtablesLock, sibling>>
parseVars == <<saveOutput, readResult>>

vars == <<tableVars, cfgVars, timeVars, applyVars, budgetVars, worldVars, parseVars,
          hist>>

(***************************************************************************)
(* expectedHashesForInsertChain: the hashes of a whole top-level chain     *)
(* given our inserts and the number of rules that are not ours.            *)
(***************************************************************************)
\* Faulty variant: the offset of append mode is forgotten.
expectedHashesForInsertChainNoOffset(chainName, numNonCalicoRules) ==
    LET insertedRules == RulesOf(chainToInsertedRules, chainName)
        ourHashes == calculateRuleInsertHashes(chainName, insertedRules)
    IN  [allHashes |->
            [i \in 1..(Len(insertedRules) + numNonCalicoRules) |->
                IF i \in 1..Len(ourHashes) THEN ourHashes[i] ELSE EmptyHash],
         ourHashes |-> ourHashes]

expectedHashesForInsertChain(chainName, numNonCalicoRules) ==
    LET insertedRules == RulesOf(chainToInsertedRules, chainName)
        ourHashes == calculateRuleInsertHashes(chainName, insertedRules)
        offset == IF insertMode = "append" THEN numNonCalicoRules ELSE 0
    IN  [allHashes |->
            [i \in 1..(Len(insertedRules) + numNonCalicoRules) |->
                IF i - offset \in 1..Len(ourHashes)
                THEN ourHashes[i - offset] ELSE EmptyHash],
         ourHashes |-> ourHashes]

(***************************************************************************)
(* loadDataplaneState: the checks of the two loops over the cache and over *)
(* the hashes just read, given as the names each loop marks.               *)
(***************************************************************************)
KnownDirty(chainName) == chainName \in dirtyChains \/ chainName \in dirtyInserts

\* Faulty variant: only the first rule of the chain is looked at.
HasInsertsAtHead(hashes) == hashes # <<>> /\ hashes[1] # EmptyHash

HasInserts(hashes) == \E i \in 1..Len(hashes) : hashes[i] # EmptyHash

\* Faulty variant: the count of the hashes cached by the previous read.
NumNonCalicoRulesCached(dpHashes, expectedHashes) == numEmptyStrings(expectedHashes)

NumNonCalicoRulesRead(dpHashes, expectedHashes) == numEmptyStrings(dpHashes)

InsertsOutOfSync(chainName, dataplaneHashes) ==
    LET dpHashes == Lookup(dataplaneHashes, chainName) IN
    IF Len(RulesOf(chainToInsertedRules, chainName)) = 0
    THEN HasInserts(dpHashes.elems)
    ELSE ~DeepEqual(dpHashes,
            Slice(expectedHashesForInsertChain(chainName,
                    NumNonCalicoRulesRead(dpHashes.elems,
                        chainToDataplaneHashes[chainName])).allHashes))

\* Faulty variant: a chain of ours is never found out of sync.
ChainOutOfSyncNever(chainName, dataplaneHashes) == FALSE

ChainOutOfSync(chainName, dataplaneHashes) ==
    ~DeepEqual(Lookup(dataplaneHashes, chainName),
               Lookup(chainToDataplaneHashes, chainName))

LoadDirtyInserts(dataplaneHashes) ==
    dirtyInserts
    \cup {c \in DOMAIN chainToDataplaneHashes :
            ~KnownDirty(c) /\ ~ourChainsRegexp(c)
                /\ InsertsOutOfSync(c, dataplaneHashes)}
    \cup {c \in DOMAIN dataplaneHashes \ DOMAIN chainToDataplaneHashes :
            ~KnownDirty(c) /\ ~ourChainsRegexp(c)
                /\ HasInserts(dataplaneHashes[c])}

\* Faulty variant: chains that are not in the cache are not looked at.
LoadDirtyChainsCachedOnly(dataplaneHashes) ==
    dirtyChains
    \cup {c \in DOMAIN chainToDataplaneHashes :
            ~KnownDirty(c) /\ ourChainsRegexp(c)
                /\ ChainOutOfSync(c, dataplaneHashes)}

LoadDirtyChains(dataplaneHashes) ==
    dirtyChains
    \cup {c \in DOMAIN chainToDataplaneHashes :
            ~KnownDirty(c) /\ ourChainsRegexp(c)
                /\ ChainOutOfSync(c, dataplaneHashes)}
    \cup {c \in DOMAIN dataplaneHashes \ DOMAIN chainToDataplaneHashes :
            ~KnownDirty(c) /\ ourChainsRegexp(c)}

(***************************************************************************)
(* applyUpdates, the building of the iptables-restore input.  The dirty    *)
(* sets are iterated in an order the set implementation picks: every pass  *)
(* takes its order as a sequence.                                          *)
(***************************************************************************)
Orders(S) ==
    {o \in [1..Cardinality(S) -> S] : \A i, j \in DOMAIN o : o[i] = o[j] => i = j}

ChainRuleHashes(chainName) ==
    IF chainName \in DOMAIN chainNameToChain
    THEN Slice(RuleHashes(chainName, chainNameToChain[chainName]))
    ELSE NilSlice

\* Faulty variant: a chain with no cached hashes can be found correct.
ChainAlreadyCorrectAnyLength(chainName) ==
    /\ nftablesMode
    /\ DeepEqual(ChainRuleHashes(chainName), Lookup(chainToDataplaneHashes, chainName))

\* nft mode, first pass: "Chain is already correct, skip it" (set.RemoveItem).
ChainAlreadyCorrect(chainName) ==
    /\ nftablesMode
    /\ Len(RulesOf(chainToDataplaneHashes, chainName)) > 0
    /\ DeepEqual(ChainRuleHashes(chainName), Lookup(chainToDataplaneHashes, chainName))

\* Faulty variant: in legacy mode only a chain to create is flushed.
chainNeedsToBeFlushedToCreate(chainName) ==
    IF nftablesMode THEN ~ChainAlreadyCorrect(chainName)
    ELSE chainName \notin DOMAIN chainToDataplaneHashes

chainNeedsToBeFlushed(chainName) ==
    IF nftablesMode THEN ~ChainAlreadyCorrect(chainName)
    ELSE \/ chainName \notin DOMAIN chainNameToChain
         \/ chainName \notin DOMAIN chainToDataplaneHashes

RECURSIVE ForwardReferencePass(_, _)
ForwardReferencePass(b, order) ==
    IF order = <<>> THEN b
    ELSE ForwardReferencePass(
            IF chainNeedsToBeFlushed(Head(order))
            THEN WriteForwardReference(b, Head(order)) ELSE b,
            Tail(order))

\* Faulty variant: the first pass empties the set.
DirtyChainsCleared == {}

DirtyChainsAfterFirstPass == {c \in dirtyChains : ~ChainAlreadyCorrect(c)}

\* Faulty variant: the whole-chain rewrite of nft mode in every mode.
PreviousHashesNil(chainName) == <<>>

PreviousHashesForUpdate(chainName) ==
    IF nftablesMode THEN <<>> ELSE RulesOf(chainToDataplaneHashes, chainName)

RECURSIVE ChainUpdateLines(_, _, _, _)
ChainUpdateLines(chainName, previousHashes, currentHashes, i) ==
    IF ~(i < Len(previousHashes) \/ i < Len(currentHashes)) THEN <<>>
    ELSE LET rest == ChainUpdateLines(chainName, previousHashes, currentHashes, i + 1)
         IN
         IF i < Len(previousHashes) /\ i < Len(currentHashes)
         THEN IF previousHashes[i + 1] = currentHashes[i + 1] THEN rest
              ELSE <<RenderReplace(chainNameToChain[chainName][i + 1], chainName,
                                   i + 1, commentFrag(currentHashes[i + 1]))>> \o rest
         ELSE IF i < Len(previousHashes)
         THEN <<deleteRule(chainName, Len(currentHashes) + 1)>> \o rest
         ELSE <<RenderAppend(chainNameToChain[chainName][i + 1], chainName,
                             commentFrag(currentHashes[i + 1]))>> \o rest

RECURSIVE WriteLines(_, _)
WriteLines(b, lines) ==
    IF lines = <<>> THEN b ELSE WriteLines(WriteLine(b, Head(lines)), Tail(lines))

RECURSIVE ChainUpdatePass(_, _)
ChainUpdatePass(st, order) ==
    IF order = <<>> THEN st
    ELSE LET c == Head(order) IN
         IF c \in DOMAIN chainNameToChain
         THEN LET currentHashes == RuleHashes(c, chainNameToChain[c]) IN
              ChainUpdatePass(
                [b |-> WriteLines(st.b,
                          ChainUpdateLines(c, PreviousHashesForUpdate(c), currentHashes, 0)),
                 newHashes |-> MapPut(st.newHashes, c, Slice(currentHashes))],
                Tail(order))
         ELSE ChainUpdatePass(st, Tail(order))

\* Faulty variant: our rules are deleted in ascending order of position.
InsertDeleteLinesAscending(chainName, previousHashes, i) ==
    LET pos == SelectSeq([k \in 1..i |-> k], LAMBDA k : previousHashes[k] # EmptyHash)
    IN [k \in 1..Len(pos) |-> deleteRule(chainName, pos[k])]

RECURSIVE InsertDeleteLines(_, _, _)
InsertDeleteLines(chainName, previousHashes, i) ==
    IF i < 1 THEN <<>>
    ELSE (IF previousHashes[i] # EmptyHash THEN <<deleteRule(chainName, i)>> ELSE <<>>)
         \o InsertDeleteLines(chainName, previousHashes, i - 1)

\* Faulty variant: the inserts at the head rendered first to last.
InsertRenderLinesForward(chainName, rules, newRuleHashes) ==
    IF insertMode = "insert"
    THEN [k \in 1..Len(rules) |->
            RenderInsert(rules[k], chainName, commentFrag(newRuleHashes[k]))]
    ELSE [k \in 1..Len(rules) |->
            RenderAppend(rules[k], chainName, commentFrag(newRuleHashes[k]))]

InsertRenderLines(chainName, rules, newRuleHashes) ==
    IF insertMode = "insert"
    THEN [k \in 1..Len(rules) |->
            RenderInsert(rules[Len(rules) + 1 - k], chainName,
                         commentFrag(newRuleHashes[Len(rules) + 1 - k]))]
    ELSE [k \in 1..Len(rules) |->
            RenderAppend(rules[k], chainName, commentFrag(newRuleHashes[k]))]

RECURSIVE InsertPass(_, _)
InsertPass(st, order) ==
    IF order = <<>> THEN st
    ELSE LET c == Head(order)
             previousHashes == Lookup(chainToDataplaneHashes, c)
             exp == expectedHashesForInsertChain(c, numEmptyStrings(previousHashes.elems))
         IN
         IF DeepEqual(Slice(exp.allHashes), previousHashes)
         THEN InsertPass(st, Tail(order))
         ELSE InsertPass(
                [b |-> WriteLines(st.b,
                          InsertDeleteLines(c, previousHashes.elems,
                                            Len(previousHashes.elems))
                          \o InsertRenderLines(c, RulesOf(chainToInsertedRules, c),
                                               exp.ourHashes)),
                 newHashes |-> MapPut(st.newHashes, c, Slice(exp.allHashes))],
                Tail(order))

RECURSIVE DeletionFlushPass(_, _)
DeletionFlushPass(b, order) ==
    IF order = <<>> THEN b
    ELSE DeletionFlushPass(
            IF Head(order) \notin DOMAIN chainNameToChain
            THEN WriteForwardReference(b, Head(order)) ELSE b,
            Tail(order))

\* Faulty variant: the pass stops after the first chain of the order.
DeletionPassFirstOnly(st, order) ==
    IF order = <<>> THEN st
    ELSE LET c == Head(order) IN
         IF c \notin DOMAIN chainNameToChain
         THEN [b |-> WriteLine(st.b, deleteChain(c)),
               newHashes |-> MapPut(st.newHashes, c, NilSlice)]
         ELSE st

RECURSIVE DeletionPass(_, _)
DeletionPass(st, order) ==
    IF order = <<>> THEN st
    ELSE LET c == Head(order) IN
         IF c \notin DOMAIN chainNameToChain
         THEN DeletionPass([b |-> WriteLine(st.b, deleteChain(c)),
                            newHashes |-> MapPut(st.newHashes, c, NilSlice)],
                           Tail(order))
         ELSE DeletionPass(st, Tail(order))

NftRestartTransaction(b) == StartTransaction(EndTransaction(b))

BuildRestoreInput(o1, o2, o3, o4, o5) ==
    LET b1 == ForwardReferencePass(StartTransaction(EmptyBuffer), o1)
        s2 == ChainUpdatePass([b |-> b1, newHashes |-> EmptyMap], o2)
        s3 == InsertPass(s2, o3)
        b4 == IF nftablesMode
              THEN DeletionFlushPass(NftRestartTransaction(s3.b), o4)
              ELSE s3.b
        s5 == DeletionPass([b |-> b4, newHashes |-> s3.newHashes], o5)
    IN  [input |-> EndTransaction(s5.b).buf, newHashes |-> s5.newHashes]

RestoreInputs ==
    LET rest == DirtyChainsAfterFirstPass IN
    {BuildRestoreInput(o1, o2, o3, o4, o5) :
        o1 \in Orders(dirtyChains), o2 \in Orders(rest), o3 \in Orders(dirtyInserts),
        o4 \in Orders(rest), o5 \in Orders(rest)}

\* "Store off the updates": a nil list deletes the cache entry.
StoreNewHashes(cache, updates) ==
    [c \in (DOMAIN cache \cup DOMAIN updates)
            \ {d \in DOMAIN updates : updates[d].isNil} |->
        IF c \in DOMAIN updates THEN updates[c].elems ELSE cache[c]]


(***************************************************************************)
(* Configuration (TableOptions) and the states a kernel table can be in    *)
(* when the Table is constructed: the kernel chains exist; FORWARD may     *)
(* hold a rule of another program, a hook of an older version, or a rule   *)
(* of a previous run; chains of a previous run may be left over, one that  *)
(* is no longer wanted and one with the content it had.                    *)
(***************************************************************************)
initialPostWriteInterval == 1
RefreshIntervals == {0, 1}
InsertModes == {"insert", "append"}

ForeignLine == [prefix |-> "", hash |-> EmptyHash, rule |-> ForeignRule]
LegacyLine == [prefix |-> "", hash |-> EmptyHash, rule |-> "-j cali-old"]
StaleLine(chainName) ==
    [prefix |-> hashCommentPrefix, hash |-> RuleHash(chainName, 1, "r0"), rule |-> "r0"]

KeptLine(chainName) ==
    [prefix |-> hashCommentPrefix, hash |-> RuleHash(chainName, 1, "r1"), rule |-> "r1"]

KernelDataplane(forward) ==
    [c \in tableToKernelChains(Name) |-> IF c = "FORWARD" THEN forward ELSE <<>>]

InitialDataplanes ==
    {KernelDataplane(<<>>),
     KernelDataplane(<<LegacyLine, ForeignLine>>),
     MapPut(MapPut(KernelDataplane(<<ForeignLine, StaleLine("FORWARD")>>),
                   "cali-b", <<StaleLine("cali-b")>>),
            "cali-a", <<KeptLine("cali-a")>>)}

ChainBodies == UNION {[1..n -> RuleSet] : n \in 0..MaxRules}

InitHist ==
    [changedSinceApply |-> FALSE, reloaded |-> FALSE, readThisAttempt |-> FALSE,
     extSinceLoad |-> FALSE, extDuringApply |-> FALSE, clean |-> FALSE,
     driftAtStart |-> FALSE, wrote |-> FALSE, restoreCalls |-> 0, sleeps |-> <<>>,
     diags |-> 0, attemptChains |-> {}, attemptInserts |-> {}, everRead |-> FALSE,
     timers |-> {}, refreshFeatures |-> 0, saveSleeps |-> <<>>]

\* Faulty variant: the Table starts with a cache it takes for valid.
initialInSyncTrue == TRUE

\* NewTable does not set inSyncWithDataPlane: it has bool's zero value.
initialInSync == FALSE

\* NewTable
InitTable ==
    /\ chainToInsertedRules = [c \in tableToKernelChains(Name) |-> <<>>]
    /\ dirtyInserts = tableToKernelChains(Name)
    /\ chainNameToChain = EmptyMap
    /\ dirtyChains = {}
    /\ chainToDataplaneHashes = EmptyMap
    /\ inSyncWithDataPlane = initialInSync
    /\ now = 0
    /\ lastReadTime = ZeroTime
    /\ lastWriteTime = now
    /\ postWriteInterval = initialPostWriteInterval
    /\ pc = "idle"
    /\ retries = ApplyRetries
    /\ backoffTime = InitialBackoff
    /\ saveRetries = SaveRetries
    /\ retryDelay = SaveRetryDelay
    /\ restoreInput = <<>>
    /\ newHashes = EmptyMap
    /\ restoreErr = FALSE
    /\ calicoXtablesLock = "free"
    /\ hist = InitHist

InitWorld(ops, ext, fail, saveFail, refresh, siblings) ==
    /\ InitTable
    /\ nftablesMode \in BOOLEAN
    /\ insertMode \in InsertModes
    /\ refreshInterval \in refresh
    /\ dataplane \in InitialDataplanes
    /\ sibling = [s \in siblings |-> "idle"]
    /\ opsLeft = ops
    /\ extLeft = ext
    /\ failLeft = fail
    /\ saveFailLeft = saveFail
    /\ saveOutput = <<>>
    /\ readResult = ReadResult(FALSE, EmptyMap, FALSE)

Init == InitWorld(MaxOps, MaxExt, 0, 0, {0}, {})

(***************************************************************************)
(* The public operations that change the desired state.                    *)
(***************************************************************************)
\* Faulty variant: the cache stays valid.
InvalidateDataplaneCacheNoop(inSync) == inSync

InvalidateDataplaneCache(inSync) == FALSE

DesiredStateChanged ==
    /\ opsLeft' = opsLeft - 1
    /\ hist' = [hist EXCEPT !.changedSinceApply = TRUE, !.clean = FALSE]
    /\ UNCHANGED <<chainToDataplaneHashes, cfgVars, parseVars, timeVars, applyVars, worldVars,
                   extLeft, failLeft, saveFailLeft>>

SetRuleInsertions(chainName, rules) ==
    /\ pc = "idle" /\ opsLeft > 0
    /\ chainToInsertedRules' = MapPut(chainToInsertedRules, chainName, rules)
    /\ dirtyInserts' = dirtyInserts \cup {chainName}
    /\ inSyncWithDataPlane' = InvalidateDataplaneCache(inSyncWithDataPlane)
    /\ UNCHANGED <<chainNameToChain, dirtyChains>>
    /\ DesiredStateChanged

\* Faulty variant: the chain is stored but not marked dirty.
UpdateChainNotDirty(chainName, rules) ==
    /\ pc = "idle" /\ opsLeft > 0
    /\ chainNameToChain' = MapPut(chainNameToChain, chainName, rules)
    /\ inSyncWithDataPlane' = InvalidateDataplaneCache(inSyncWithDataPlane)
    /\ UNCHANGED <<chainToInsertedRules, dirtyInserts, dirtyChains>>
    /\ DesiredStateChanged

UpdateChain(chainName, rules) ==
    /\ pc = "idle" /\ opsLeft > 0
    /\ chainNameToChain' = MapPut(chainNameToChain, chainName, rules)
    /\ dirtyChains' = dirtyChains \cup {chainName}
    /\ inSyncWithDataPlane' = InvalidateDataplaneCache(inSyncWithDataPlane)
    /\ UNCHANGED <<chainToInsertedRules, dirtyInserts>>
    /\ DesiredStateChanged

RemoveChainByName(chainName) ==
    /\ pc = "idle" /\ opsLeft > 0
    /\ IF chainName \in DOMAIN chainNameToChain
       THEN /\ chainNameToChain' = MapDelete(chainNameToChain, chainName)
            /\ dirtyChains' = dirtyChains \cup {chainName}
       ELSE UNCHANGED <<chainNameToChain, dirtyChains>>
    /\ inSyncWithDataPlane' = InvalidateDataplaneCache(inSyncWithDataPlane)
    /\ UNCHANGED <<chainToInsertedRules, dirtyInserts>>
    /\ DesiredStateChanged

(***************************************************************************)
(* What the dataplane should hold, stated on the hashes iptables-save      *)
(* gives: each desired chain of ours holds its hashes, no other chain of   *)
(* ours exists, and a chain that is not ours holds our insertions at its   *)
(* head (insert mode) or tail (append mode) and rules without hash         *)
(* elsewhere.                                                              *)
(***************************************************************************)
InsertLayoutOk(hashes, chainName) ==
    LET our == RuleHashes(chainName, RulesOf(chainToInsertedRules, chainName))
        n == Len(our)
        len == Len(hashes)
    IN  /\ len >= n
        /\ IF insertMode = "insert"
           THEN /\ SubSeq(hashes, 1, n) = our
                /\ \A i \in (n + 1)..len : hashes[i] = EmptyHash
           ELSE /\ SubSeq(hashes, len - n + 1, len) = our
                /\ \A i \in 1..(len - n) : hashes[i] = EmptyHash

Converged(dp) ==
    LET h == attemptToGetHashesFromDataplane(dp) IN
    /\ \A c \in DOMAIN chainNameToChain :
          ourChainsRegexp(c) =>
              c \in DOMAIN h /\ h[c] = RuleHashes(c, chainNameToChain[c])
    /\ \A c \in DOMAIN h :
          IF ourChainsRegexp(c) THEN c \in DOMAIN chainNameToChain
          ELSE InsertLayoutOk(h[c], c)

(***************************************************************************)
(* Apply.  pc is the place of the running call: "idle" (no call), "loop"   *)
(* (top of the retry loop), "lock" (input built, about to take the lock),  *)
(* "restore" (lock held, command running), "unlock" (command returned),    *)
(* "returned", "panic".                                                     *)
(***************************************************************************)
\* Faulty variant: the interval is doubled at most once per Apply.
PostWriteBackoffOnce(interval) ==
    IF interval # 0 /\ interval < Hour /\ ~(now < lastWriteTime + interval)
    THEN interval * 2
    ELSE interval

RECURSIVE PostWriteBackoff(_)
PostWriteBackoff(interval) ==
    IF interval # 0 /\ interval < Hour /\ ~(now < lastWriteTime + interval)
    THEN PostWriteBackoff(interval * 2)
    ELSE interval

\* Faulty variant: the refresh interval is taken to be set when it is 0.
RefreshDueUnguarded == now - lastReadTime > refreshInterval

\* Faulty variant: the refresh timer never fires.
RefreshDueNever == FALSE

RefreshDue == refreshInterval > 0 /\ now - lastReadTime > refreshInterval

ApplyStart ==
    /\ pc = "idle"
    /\ postWriteInterval' = PostWriteBackoff(postWriteInterval)
    /\ inSyncWithDataPlane' =
          IF RefreshDue \/ postWriteInterval' # postWriteInterval
          THEN InvalidateDataplaneCache(inSyncWithDataPlane)
          ELSE inSyncWithDataPlane
    /\ retries' = ApplyRetries
    /\ backoffTime' = InitialBackoff
    /\ pc' = "loop"
    /\ hist' = [hist EXCEPT !.reloaded = FALSE, !.readThisAttempt = FALSE,
                            !.extDuringApply = FALSE, !.wrote = FALSE,
                            !.restoreCalls = 0, !.sleeps = <<>>,
                            !.driftAtStart = inSyncWithDataPlane /\ ~Converged(dataplane),
                            !.refreshFeatures = 0,
                            !.timers = (IF RefreshDue THEN {"refresh"} ELSE {})
                               \cup (IF postWriteInterval' # postWriteInterval
                                     THEN {"postWrite"} ELSE {})]
    /\ UNCHANGED <<chainToInsertedRules, dirtyInserts, chainNameToChain, dirtyChains,
                   chainToDataplaneHashes, cfgVars, parseVars, lastReadTime, lastWriteTime,
                   saveRetries, retryDelay, restoreInput, newHashes, restoreErr,
                   budgetVars, worldVars>>

\* Faulty variant: loadDataplaneState does not refresh the features.
RefreshFeaturesSkipped(calls) == calls

\* loadDataplaneState starts with t.featureDetector.RefreshFeatures(); a
\* call of loadDataplaneState starts where no attempt of iptables-save has
\* failed yet.
RefreshFeatures(calls) == IF saveRetries = SaveRetries THEN calls + 1 ELSE calls

\* loadDataplaneState with an iptables-save that succeeds.
LoadDataplaneState ==
    /\ pc = "loop" /\ ~inSyncWithDataPlane
    /\ lastReadTime' = now
    /\ LET dataplaneHashes == attemptToGetHashesFromDataplane(dataplane) IN
          /\ dirtyInserts' = LoadDirtyInserts(dataplaneHashes)
          /\ dirtyChains' = LoadDirtyChains(dataplaneHashes)
          /\ chainToDataplaneHashes' = dataplaneHashes
    /\ inSyncWithDataPlane' = TRUE
    /\ saveRetries' = SaveRetries
    /\ retryDelay' = SaveRetryDelay
    /\ hist' = [hist EXCEPT !.reloaded = TRUE, !.readThisAttempt = TRUE,
                            !.extSinceLoad = FALSE, !.everRead = TRUE,
                            !.refreshFeatures = RefreshFeatures(@),
                            !.saveSleeps = <<>>]
    /\ UNCHANGED <<chainToInsertedRules, chainNameToChain, cfgVars, parseVars, lastWriteTime,
                   postWriteInterval, pc, retries, backoffTime, restoreInput,
                   newHashes, restoreErr, budgetVars, worldVars>>

\* Faulty variant: the delay between the attempts is not doubled.
SaveFailsConstantDelay ==
    /\ pc = "loop" /\ ~inSyncWithDataPlane
    /\ saveFailLeft > 0
    /\ saveFailLeft' = saveFailLeft - 1
    /\ lastReadTime' = now
    /\ IF saveRetries > 0
       THEN /\ saveRetries' = saveRetries - 1
            /\ retryDelay' = retryDelay
            /\ pc' = pc
            /\ hist' = [hist EXCEPT !.refreshFeatures = RefreshFeatures(@),
                                    !.saveSleeps = Append(@, retryDelay)]
       ELSE /\ pc' = "panic"
            /\ hist' = [hist EXCEPT !.refreshFeatures = RefreshFeatures(@)]
            /\ UNCHANGED <<saveRetries, retryDelay>>
    /\ UNCHANGED <<tableVars, cfgVars, parseVars, lastWriteTime, postWriteInterval, retries,
                   backoffTime, restoreInput, newHashes, restoreErr, worldVars,
                   opsLeft, extLeft, failLeft>>

\* getHashesFromDataplane: an attempt of iptables-save fails; hist.saveSleeps
\* records the calls of timeSleep.
SaveFails ==
    /\ pc = "loop" /\ ~inSyncWithDataPlane
    /\ saveFailLeft > 0
    /\ saveFailLeft' = saveFailLeft - 1
    /\ lastReadTime' = now
    /\ IF saveRetries > 0
       THEN /\ saveRetries' = saveRetries - 1
            /\ retryDelay' = retryDelay * 2
            /\ pc' = pc
            /\ hist' = [hist EXCEPT !.refreshFeatures = RefreshFeatures(@),
                                    !.saveSleeps = Append(@, retryDelay)]
       ELSE /\ pc' = "panic"
            /\ hist' = [hist EXCEPT !.refreshFeatures = RefreshFeatures(@)]
            /\ UNCHANGED <<saveRetries, retryDelay>>
    /\ UNCHANGED <<tableVars, cfgVars, parseVars, lastWriteTime, postWriteInterval, retries,
                   backoffTime, restoreInput, newHashes, restoreErr, worldVars,
                   opsLeft, extLeft, failLeft>>

\* Faulty variant: the dirty sets are kept.
ClearDirtyAndStoreKeepsDirty(updates) ==
    /\ UNCHANGED <<dirtyChains, dirtyInserts>>
    /\ chainToDataplaneHashes' = StoreNewHashes(chainToDataplaneHashes, updates)
    /\ restoreInput' = <<>>
    /\ newHashes' = EmptyMap
    /\ restoreErr' = FALSE
    /\ pc' = "returned"

\* The end of applyUpdates after the input was accepted or found empty.
ClearDirtyAndStore(updates) ==
    /\ dirtyChains' = {}
    /\ dirtyInserts' = {}
    /\ chainToDataplaneHashes' = StoreNewHashes(chainToDataplaneHashes, updates)
    /\ restoreInput' = <<>>
    /\ newHashes' = EmptyMap
    /\ restoreErr' = FALSE
    /\ pc' = "returned"

\* applyUpdates up to the call of iptables-restore.
ApplyUpdates ==
    /\ pc = "loop" /\ inSyncWithDataPlane
    /\ \E r \in RestoreInputs :
          IF r.input = <<>>
          THEN /\ ClearDirtyAndStore(r.newHashes)
               /\ UNCHANGED hist
          ELSE /\ restoreInput' = r.input
               /\ newHashes' = r.newHashes
               /\ dirtyChains' = DirtyChainsAfterFirstPass
               /\ pc' = "lock"
               /\ hist' = [hist EXCEPT !.restoreCalls = @ + 1,
                                       !.attemptChains = dirtyChains,
                                       !.attemptInserts = dirtyInserts]
               /\ UNCHANGED <<dirtyInserts, chainToDataplaneHashes, restoreErr>>
    /\ UNCHANGED <<chainToInsertedRules, chainNameToChain, inSyncWithDataPlane,
                   cfgVars, parseVars, timeVars, retries, backoffTime, saveRetries, retryDelay,
                   budgetVars, worldVars>>

XtablesLock(who) ==
    /\ calicoXtablesLock = "free"
    /\ calicoXtablesLock' = who

\* Faulty variant: the lock is kept.
XtablesUnlockKept(who) == calicoXtablesLock' = calicoXtablesLock

XtablesUnlock(who) == calicoXtablesLock' = "free"

\* Faulty variant: the command runs without the lock.
LockAcquireSkipsLock ==
    /\ pc = "lock"
    /\ pc' = "restore"
    /\ UNCHANGED <<tableVars, cfgVars, parseVars, timeVars, retries, backoffTime, saveRetries,
                   retryDelay, restoreInput, newHashes, restoreErr, budgetVars,
                   worldVars, hist>>

LockAcquire ==
    /\ pc = "lock"
    /\ XtablesLock(Name)
    /\ pc' = "restore"
    /\ UNCHANGED <<tableVars, cfgVars, parseVars, timeVars, retries, backoffTime, saveRetries,
                   retryDelay, restoreInput, newHashes, restoreErr, budgetVars,
                   dataplane, now, sibling, hist>>

\* cmd.Run(): iptables-restore processes the input.
RestoreRuns ==
    /\ pc = "restore"
    /\ LET res == RestoreExec(dataplane, restoreInput) IN
          /\ dataplane' = res.dp
          /\ restoreErr' = res.err
    /\ pc' = "unlock"
    /\ UNCHANGED <<tableVars, cfgVars, parseVars, timeVars, retries, backoffTime, saveRetries,
                   retryDelay, restoreInput, newHashes, budgetVars, now,
                   calicoXtablesLock, sibling, hist>>

\* cmd.Run(): iptables-restore fails without having changed anything.
RestoreFails ==
    /\ pc = "restore"
    /\ failLeft > 0
    /\ failLeft' = failLeft - 1
    /\ restoreErr' = TRUE
    /\ pc' = "unlock"
    /\ UNCHANGED <<tableVars, cfgVars, parseVars, timeVars, retries, backoffTime, saveRetries,
                   retryDelay, restoreInput, newHashes, opsLeft, extLeft,
                   saveFailLeft, worldVars, hist>>

\* Faulty variant: the cache stays valid after an error of the command.
inSyncAfterRestoreErrorKept(inSync) == inSync

\* applyUpdates on an error of the command: "t.inSyncWithDataPlane = false".
inSyncAfterRestoreError(inSync) == FALSE

\* Faulty variant: a failed attempt does not use up a retry.
RetriesAfterFailureKept(r) == r

\* Apply on an error of applyUpdates with retries left: "retries--".
RetriesAfterFailure(r) == r - 1

\* Faulty variant: the sleep is not doubled.
NextBackoffConstant(backoff) == backoff

\* Apply on an error of applyUpdates: "backoffTime *= 2".
NextBackoff(backoff) == backoff * 2

\* Unlock, the rest of applyUpdates, and Apply's handling of its result.
RestoreReturns ==
    /\ pc = "unlock"
    /\ XtablesUnlock(Name)
    /\ IF restoreErr
       THEN /\ inSyncWithDataPlane' = inSyncAfterRestoreError(inSyncWithDataPlane)
            /\ restoreInput' = <<>>
            /\ newHashes' = EmptyMap
            /\ restoreErr' = FALSE
            /\ IF retries > 0
               THEN /\ retries' = RetriesAfterFailure(retries)
                    /\ backoffTime' = NextBackoff(backoffTime)
                    /\ pc' = "loop"
                    /\ hist' = [hist EXCEPT !.sleeps = Append(@, backoffTime),
                                            !.readThisAttempt = FALSE]
               ELSE /\ pc' = "panic"
                    /\ hist' = [hist EXCEPT !.diags = @ + 1]
                    /\ UNCHANGED <<retries, backoffTime>>
            /\ UNCHANGED <<dirtyChains, dirtyInserts, chainToDataplaneHashes,
                           lastWriteTime, postWriteInterval>>
       ELSE /\ lastWriteTime' = now
            /\ postWriteInterval' = initialPostWriteInterval
            /\ ClearDirtyAndStore(newHashes)
            /\ hist' = [hist EXCEPT !.wrote = TRUE]
            /\ UNCHANGED <<inSyncWithDataPlane, retries, backoffTime>>
    /\ UNCHANGED <<chainToInsertedRules, chainNameToChain, cfgVars, parseVars, lastReadTime,
                   saveRetries, retryDelay, budgetVars, dataplane, now, sibling>>

\* The duration Apply returns, computed where pc = "returned" with now the
\* time Apply read when it started.  A duration is a number of time units
\* and a number of milliseconds; the zero duration is the zero value of the
\* named result.
Duration(units) == [units |-> units, ms |-> 0]
OneMillisecond == [units |-> 0, ms |-> 1]

\* Faulty variant: the post-write timer counts whatever its interval.
rescheduleAfterNoLimit ==
    LET lastReadToNow == now - lastReadTime
        refreshRemaining == IF refreshInterval > 0
                            THEN refreshInterval - lastReadToNow
                            ELSE 0
        postWriteReched == lastWriteTime + postWriteInterval - now
    IN IF postWriteReched <= 0
       THEN OneMillisecond
       ELSE IF refreshInterval <= 0 \/ postWriteReched < refreshRemaining
       THEN Duration(postWriteReched)
       ELSE Duration(refreshRemaining)

rescheduleAfter ==
    LET lastReadToNow == now - lastReadTime
        refreshRemaining == IF refreshInterval > 0
                            THEN refreshInterval - lastReadToNow
                            ELSE 0
        postWriteReched == lastWriteTime + postWriteInterval - now
    IN IF postWriteInterval < Hour
       THEN IF postWriteReched <= 0
            THEN OneMillisecond
            ELSE IF refreshInterval <= 0 \/ postWriteReched < refreshRemaining
            THEN Duration(postWriteReched)
            ELSE Duration(refreshRemaining)
       ELSE Duration(refreshRemaining)

\* Apply returns to its caller.
ApplyReturns ==
    /\ pc = "returned"
    /\ pc' = "idle"
    /\ retries' = ApplyRetries
    /\ backoffTime' = InitialBackoff
    /\ hist' = [hist EXCEPT !.changedSinceApply = FALSE,
                            !.clean = IF hist.reloaded THEN ~hist.extSinceLoad
                                      ELSE hist.clean,
                            !.reloaded = FALSE, !.readThisAttempt = FALSE,
                            !.extDuringApply = FALSE, !.driftAtStart = FALSE,
                            !.wrote = FALSE, !.restoreCalls = 0, !.sleeps = <<>>,
                            !.attemptChains = {}, !.attemptInserts = {},
                            !.timers = {}, !.refreshFeatures = 0,
                            !.saveSleeps = <<>>]
    /\ UNCHANGED <<tableVars, cfgVars, parseVars, timeVars, saveRetries, retryDelay,
                   restoreInput, newHashes, restoreErr, budgetVars, worldVars>>

(***************************************************************************)
(* The world: other processes write to the table; time passes between      *)
(* calls.                                                                  *)
(***************************************************************************)
ExternalChains == {"FORWARD", "cali-a"}

ExternalWrite(dp) ==
    /\ pc \in {"idle", "lock"}
    /\ extLeft > 0
    /\ extLeft' = extLeft - 1
    /\ dataplane' = dp
    /\ hist' = [hist EXCEPT !.extSinceLoad = TRUE, !.clean = FALSE,
                            !.extDuringApply = (pc # "idle")]
    /\ UNCHANGED <<tableVars, cfgVars, parseVars, timeVars, applyVars, now, calicoXtablesLock,
                   sibling, opsLeft, failLeft, saveFailLeft>>

ExternalInsert(chainName) ==
    /\ chainName \in DOMAIN dataplane
    /\ ExternalWrite([dataplane EXCEPT ![chainName] = <<ForeignLine>> \o @])

ExternalAppend(chainName) ==
    /\ chainName \in DOMAIN dataplane
    /\ ExternalWrite([dataplane EXCEPT ![chainName] = Append(@, ForeignLine)])

ExternalDelete(chainName, ruleNum) ==
    /\ chainName \in DOMAIN dataplane
    /\ ruleNum \in 1..Len(dataplane[chainName])
    /\ ExternalWrite([dataplane EXCEPT ![chainName] = RemoveAt(@, ruleNum)])

ExternalDeleteChain(chainName) ==
    /\ chainName \in DOMAIN dataplane
    /\ chainName \notin tableToKernelChains(Name)
    /\ ExternalWrite(MapDelete(dataplane, chainName))

TickTo(limit) ==
    /\ pc = "idle"
    /\ now < limit
    /\ now' = now + 1
    /\ UNCHANGED <<tableVars, cfgVars, parseVars, timeVars, applyVars, budgetVars, dataplane,
                   calicoXtablesLock, sibling, hist>>

Tick == TickTo(MaxTime)

InsertTargets == {"FORWARD"}
UpdateNames == {"cali-a"}

DesiredStateOp ==
    \/ \E c \in InsertTargets, rules \in ChainBodies : SetRuleInsertions(c, rules)
    \/ \E c \in UpdateNames, rules \in ChainBodies : UpdateChain(c, rules)
    \/ \E c \in UpdateNames : RemoveChainByName(c)

ApplyStep ==
    \/ ApplyStart
    \/ LoadDataplaneState
    \/ ApplyUpdates
    \/ LockAcquire
    \/ RestoreRuns
    \/ RestoreReturns
    \/ ApplyReturns

ExternalStep ==
    \/ \E c \in ExternalChains : ExternalInsert(c)
    \/ \E c \in ExternalChains : ExternalAppend(c)
    \/ \E c \in ExternalChains, n \in 1..(MaxRules + 2) : ExternalDelete(c, n)
    \/ \E c \in ExternalChains : ExternalDeleteChain(c)

Next ==
    \/ DesiredStateOp
    \/ ApplyStep
    \/ ExternalStep

Spec == Init /\ [][Next]_vars

(***************************************************************************)
(* The same Table where iptables-restore and iptables-save can fail.       *)
(***************************************************************************)
InitFail == InitWorld(MaxOps - 1, MaxExt, MaxFail, MaxSaveFail, {0}, {})

NextFail ==
    \/ DesiredStateOp
    \/ ApplyStep
    \/ RestoreFails
    \/ SaveFails
    \/ ExternalStep

SpecFail == InitFail /\ [][NextFail]_vars

(***************************************************************************)
(* The same Table with a clock: time passes between calls of Apply, so     *)
(* that the refresh timer and the post-write timer make Apply reload.      *)
(***************************************************************************)
InitTimers == InitWorld(MaxOps - 1, MaxExt, 0, 0, RefreshIntervals, {})

NextTimers ==
    \/ DesiredStateOp
    \/ ApplyStep
    \/ ExternalStep
    \/ Tick

SpecTimers == InitTimers /\ [][NextTimers]_vars

(***************************************************************************)
(* The Table over a longer time with no change of the desired state: the   *)
(* post-write interval reaches an hour, so that the refresh timer is the   *)
(* only timer left; iptables-restore can fail.                             *)
(***************************************************************************)
NextRefresh ==
    \/ ApplyStep
    \/ RestoreFails
    \/ ExternalStep
    \/ TickTo(TimeHorizon)

SpecRefresh ==
    InitWorld(0, MaxExt, MaxFail, 0, RefreshIntervals, {}) /\ [][NextRefresh]_vars

(***************************************************************************)
(* The same Table with a caller that also passes the name of a kernel      *)
(* chain to UpdateChain and RemoveChainByName, which take any name; the    *)
(* kernel table holds no chain of a previous run.                          *)
(***************************************************************************)
NextKernel ==
    \/ DesiredStateOp
    \/ \E c \in InsertTargets, rules \in ChainBodies : UpdateChain(c, rules)
    \/ \E c \in InsertTargets : RemoveChainByName(c)
    \/ ApplyStep

InitKernel ==
    /\ InitWorld(MaxOps, 0, 0, 0, {0}, {})
    /\ DOMAIN dataplane = tableToKernelChains(Name)

SpecKernel == InitKernel /\ [][NextKernel]_vars

(***************************************************************************)
(* The same Table where iptables-restore can fail on every attempt of an   *)
(* Apply call.                                                             *)
(***************************************************************************)
InitRetry == InitWorld(MaxOps - 1, 0, ApplyRetries + 1, 0, {0}, {})

NextRetry ==
    \/ DesiredStateOp
    \/ ApplyStep
    \/ RestoreFails

SpecRetry == InitRetry /\ [][NextRetry]_vars

(***************************************************************************)
(* The Table with an iptables-save that can fail once more than            *)
(* getHashesFromDataplane retries.                                         *)
(***************************************************************************)
NextSave ==
    \/ DesiredStateOp
    \/ ApplyStep
    \/ SaveFails

SpecSave == InitWorld(MaxOps - 1, 0, 0, SaveRetries + 1, {0}, {}) /\ [][NextSave]_vars

(***************************************************************************)
(* The Table with commands that return but can fail as often as Apply and  *)
(* getHashesFromDataplane retry, and a clock.  A call of Apply that has    *)
(* started keeps running: every call of a command returns, with or         *)
(* without an error.                                                       *)
(***************************************************************************)
InitTerm == InitWorld(0, 0, ApplyRetries + 1, SaveRetries + 1, {0}, {})

NextTerm ==
    \/ ApplyStep
    \/ RestoreFails
    \/ SaveFails
    \/ TickTo(TimeHorizon)

\* A step of the running Apply call, as far as it shows in its position, the
\* in-sync flag and the retry counter of getHashesFromDataplane: every step
\* of ApplyStep, RestoreFails and SaveFails inside a call changes one of the
\* three, and in every state inside a call one of them can be taken.
ApplyProgress ==
    /\ pc \in {"loop", "lock", "restore", "unlock"}
    /\ pc' \in {"loop", "lock", "restore", "unlock", "returned", "panic"}
    /\ inSyncWithDataPlane' \in BOOLEAN
    /\ saveRetries' \in 0..SaveRetries

SpecTerm ==
    /\ InitTerm
    /\ [][NextTerm]_vars
    /\ WF_<<pc, inSyncWithDataPlane, saveRetries>>(ApplyProgress)

(***************************************************************************)
(* The Table next to the Tables of the other kernel tables, which share    *)
(* its calicoXtablesLock and run on their own threads.  Of a sibling the   *)
(* model keeps the place of its applyUpdates around cmd.Run(); its command *)
(* writes to its own kernel table.                                         *)
(***************************************************************************)
SiblingOrder == <<"nat", "mangle", "raw">>
SiblingNames == {SiblingOrder[i] : i \in 1..NumSiblings}

SiblingBuilds(s) ==
    /\ sibling[s] = "idle"
    /\ sibling' = [sibling EXCEPT ![s] = "lock"]
    /\ UNCHANGED <<tableVars, cfgVars, parseVars, timeVars, applyVars, budgetVars, dataplane,
                   now, calicoXtablesLock, hist>>

SiblingLockAcquire(s) ==
    /\ sibling[s] = "lock"
    /\ XtablesLock(s)
    /\ sibling' = [sibling EXCEPT ![s] = "restore"]
    /\ UNCHANGED <<tableVars, cfgVars, parseVars, timeVars, applyVars, budgetVars, dataplane,
                   now, hist>>

SiblingRestoreRuns(s) ==
    /\ sibling[s] = "restore"
    /\ sibling' = [sibling EXCEPT ![s] = "unlock"]
    /\ UNCHANGED <<tableVars, cfgVars, parseVars, timeVars, applyVars, budgetVars, dataplane,
                   now, calicoXtablesLock, hist>>

SiblingRestoreReturns(s) ==
    /\ sibling[s] = "unlock"
    /\ XtablesUnlock(s)
    /\ sibling' = [sibling EXCEPT ![s] = "idle"]
    /\ UNCHANGED <<tableVars, cfgVars, parseVars, timeVars, applyVars, budgetVars, dataplane,
                   now, hist>>

SiblingStep ==
    \/ \E s \in SiblingNames : SiblingBuilds(s)
    \/ \E s \in SiblingNames : SiblingLockAcquire(s)
    \/ \E s \in SiblingNames : SiblingRestoreRuns(s)
    \/ \E s \in SiblingNames : SiblingRestoreReturns(s)

InitLock == InitWorld(MaxOps - 1, 0, MaxFail, MaxSaveFail, {0}, SiblingNames)

NextLock ==
    \/ DesiredStateOp
    \/ ApplyStep
    \/ RestoreFails
    \/ SaveFails
    \/ SiblingStep

SpecLock == InitLock /\ [][NextLock]_vars

(***************************************************************************)
(* readHashesFrom on its own, as the tests call it: the reader holds up to *)
(* MaxLines lines, each a declaration of a chain, a rule of a chain or a   *)
(* line that is neither.  A rule has no comment, a comment with our prefix *)
(* and a hash, a comment with our prefix and nothing the pattern takes for *)
(* a hash, or a comment with another prefix; it is a rule of another       *)
(* program or matches the pattern of old rules.  The scanner can fail      *)
(* after any number of lines.                                              *)
(***************************************************************************)
ReaderLines ==
    LET chains == {"FORWARD", "cali-a"}
        rules ==
            {[prefix |-> c[1], hash |-> c[2], rule |-> r] :
                c \in {<<"", EmptyHash>>,
                       <<hashCommentPrefix, RuleHash("cali-a", 1, "r1")>>,
                       <<hashCommentPrefix, EmptyHash>>,
                       <<"other:", RuleHash("cali-a", 1, "r1")>>},
                r \in {ForeignRule} \cup LegacyRules}
    IN {SaveLine("other", "", NoLine)}
       \cup {SaveLine("decl", c, NoLine) : c \in chains}
       \cup {SaveLine("append", c, l) : c \in chains, l \in rules}

ReadHashesFrom ==
    /\ ~readResult.returned
    /\ readResult' = ReadResult(TRUE, readHashesFrom(saveOutput), FALSE)
    /\ UNCHANGED <<tableVars, cfgVars, timeVars, applyVars, budgetVars, worldVars,
                   saveOutput, hist>>

ReadHashesFromScannerErr ==
    /\ ~readResult.returned
    /\ \E n \in 0..Len(saveOutput) :
          readResult' = ReadResult(TRUE, readHashesFrom(SubSeq(saveOutput, 1, n)), TRUE)
    /\ UNCHANGED <<tableVars, cfgVars, timeVars, applyVars, budgetVars, worldVars,
                   saveOutput, hist>>

InitReader ==
    /\ InitTable
    /\ nftablesMode = FALSE
    /\ insertMode = "insert"
    /\ refreshInterval = 0
    /\ dataplane = KernelDataplane(<<>>)
    /\ sibling = [s \in {} |-> "idle"]
    /\ opsLeft = 0 /\ extLeft = 0 /\ failLeft = 0 /\ saveFailLeft = 0
    /\ saveOutput \in UNION {[1..n -> ReaderLines] : n \in 0..MaxLines}
    /\ readResult = ReadResult(FALSE, EmptyMap, FALSE)

NextReader ==
    \/ ReadHashesFrom
    \/ ReadHashesFromScannerErr

SpecReader == InitReader /\ [][NextReader]_vars

(***************************************************************************)
(* The Table started on a dataplane that holds hooks of a previous run,    *)
(* in a kernel chain and in a chain that is neither ours nor a kernel      *)
(* chain; another process (such as an instance still running) can put a    *)
(* rule with our hash comment, or a rule of the old kind, at the head of   *)
(* such a chain at any time, or delete the chain that is not a kernel      *)
(* chain.                                                                  *)
(***************************************************************************)
ExternalHook(chainName) ==
    /\ chainName \in DOMAIN dataplane
    /\ \E l \in {StaleLine(chainName), LegacyLine} :
          ExternalWrite([dataplane EXCEPT ![chainName] = <<l>> \o @])

InitHooks ==
    /\ InitTable
    /\ nftablesMode \in BOOLEAN
    /\ insertMode \in InsertModes
    /\ refreshInterval \in RefreshIntervals
    /\ dataplane = MapPut(KernelDataplane(<<LegacyLine, ForeignLine>>),
                          "DOCKER", <<ForeignLine, StaleLine("DOCKER")>>)
    /\ sibling = [s \in {} |-> "idle"]
    /\ opsLeft = 1 /\ extLeft = MaxExt /\ failLeft = 0 /\ saveFailLeft = 0
    /\ saveOutput = <<>>
    /\ readResult = ReadResult(FALSE, EmptyMap, FALSE)

NextHooks ==
    \/ DesiredStateOp
    \/ ApplyStep
    \/ \E c \in {"FORWARD", "DOCKER"} : ExternalHook(c)
    \/ ExternalDeleteChain("DOCKER")
    \/ Tick

SpecHooks == InitHooks /\ [][NextHooks]_vars


(***************************************************************************)
(* Claims.                                                                 *)
(***************************************************************************)
NoExternalWriteDuringApply == ~hist.extDuringApply

\* C1: when Apply returns and no other process wrote to the table during
\* that call, then, if a desired-state call preceded it, it has reloaded the
\* dataplane state, and having reloaded it leaves the dataplane converged:
\* every desired chain of ours holds exactly its hashes, no other chain of
\* ours exists, and every other chain holds our insertions at its head
\* (insert mode) or tail (append mode) next to its foreign rules.
C1_Convergence ==
    (pc = "returned" /\ NoExternalWriteDuringApply) =>
        /\ hist.changedSinceApply => hist.reloaded
        /\ hist.reloaded => Converged(dataplane)

C1_Witness ==
    /\ pc = "returned" /\ NoExternalWriteDuringApply
    /\ hist.changedSinceApply /\ hist.wrote
    /\ "cali-a" \in DOMAIN chainNameToChain
    /\ Len(chainNameToChain["cali-a"]) = 2
    /\ Len(RulesOf(chainToInsertedRules, "FORWARD")) = 2
    /\ \E i \in 1..Len(dataplane["FORWARD"]) : dataplane["FORWARD"][i] = ForeignLine

\* C2: once an Apply has returned that worked from a read of the dataplane
\* no other process has written to since, and neither the desired state nor
\* the dataplane was changed since, a further Apply builds an empty
\* transaction and never reaches the restore command, whether or not its
\* timers made it reload.
C2_Idempotence ==
    hist.clean =>
        /\ pc \notin {"lock", "restore", "unlock", "panic"}
        /\ hist.restoreCalls = 0
        /\ restoreInput = <<>>

C2_Witness ==
    /\ hist.clean /\ pc = "returned" /\ hist.reloaded
    /\ insertMode = "append"
    /\ Len(RulesOf(chainToInsertedRules, "FORWARD")) = 2
    /\ \E i \in 1..Len(dataplane["FORWARD"]) : dataplane["FORWARD"][i] = ForeignLine

LinesFor(input, chainName) == SelectSeq(input, LAMBDA l : l.chain = chainName)

NumLines(lines, op) == Cardinality({k \in 1..Len(lines) : lines[k].op = op})

Differing(old, new) ==
    {i \in 1..Len(old) : i <= Len(new) /\ old[i] # new[i]}

\* C3: in legacy mode, when the transaction is built, for every dirty chain
\* of ours that is desired and that the cache knows, the lines of the
\* transaction for that chain are: one replace line for each position where
\* the cached and the desired hashes differ, carrying the desired rule and
\* hash; one append line for each desired rule beyond the cached length; one
\* delete line for each cached rule beyond the desired length; and no other
\* line (no forward reference, no insert, no chain deletion).
C3_MinimalDiff ==
    (pc = "lock" /\ ~nftablesMode) =>
        \A c \in dirtyChains \cap DOMAIN chainNameToChain
                    \cap DOMAIN chainToDataplaneHashes :
            LET old == chainToDataplaneHashes[c]
                rules == chainNameToChain[c]
                lines == LinesFor(restoreInput, c)
                diff == Differing(old, [i \in 1..Len(rules) |-> RuleHash(c, i, rules[i])])
            IN  /\ \A i \in diff : \E k \in 1..Len(lines) :
                      lines[k] = InLine("R", c, i, hashCommentPrefix,
                                        RuleHash(c, i, rules[i]), rules[i])
                /\ NumLines(lines, "R") = Cardinality(diff)
                /\ \A i \in (Len(old) + 1)..Len(rules) : \E k \in 1..Len(lines) :
                      lines[k] = InLine("A", c, 0, hashCommentPrefix,
                                        RuleHash(c, i, rules[i]), rules[i])
                /\ NumLines(lines, "A") = Cardinality((Len(old) + 1)..Len(rules))
                /\ \A k \in 1..Len(lines) :
                      lines[k].op = "D" => lines[k].num = Len(rules) + 1
                /\ NumLines(lines, "D") = Cardinality((Len(rules) + 1)..Len(old))
                /\ Len(lines) = NumLines(lines, "R") + NumLines(lines, "A")
                                    + NumLines(lines, "D")

C3_Witness ==
    /\ pc = "lock" /\ ~nftablesMode
    /\ "cali-a" \in dirtyChains
    /\ "cali-a" \in DOMAIN chainNameToChain
    /\ "cali-a" \in DOMAIN chainToDataplaneHashes
    /\ Len(chainToDataplaneHashes["cali-a"]) = 2
    /\ Len(chainNameToChain["cali-a"]) = 2
    /\ chainToDataplaneHashes["cali-a"][1] = RuleHash("cali-a", 1, chainNameToChain["cali-a"][1])
    /\ chainToDataplaneHashes["cali-a"][2] # RuleHash("cali-a", 2, chainNameToChain["cali-a"][2])
    /\ Len(LinesFor(restoreInput, "cali-a")) = 1

\* An attempt of Apply has built a transaction and its restore command has
\* not been accepted: the command is about to run, runs, has returned, or has
\* failed.
AttemptNotAccepted ==
    \/ pc \in {"lock", "restore", "unlock"}
    \/ pc \in {"loop", "panic"} /\ hist.restoreCalls > 0

\* C4 as stated: while the restore command of an attempt has not been
\* accepted, and after it failed, both dirty sets contain every name they
\* contained when applyUpdates started.
C4_Original ==
    AttemptNotAccepted =>
        /\ hist.attemptChains \subseteq dirtyChains
        /\ hist.attemptInserts \subseteq dirtyInserts

\* C4: while the restore command of an attempt has not been accepted, and
\* after it failed, the dirty-inserts set contains every name it contained
\* when applyUpdates started, and so does the dirty-chains set except for the
\* chains that the first pass found already correct in nft mode (desired
\* hashes equal to the cached, non-empty hashes).
C4_DirtyKept ==
    AttemptNotAccepted =>
        /\ hist.attemptInserts \subseteq dirtyInserts
        /\ \A c \in hist.attemptChains \ dirtyChains : ChainAlreadyCorrect(c)

C4_Witness ==
    /\ pc = "loop" /\ Len(hist.sleeps) > 0
    /\ nftablesMode
    /\ hist.attemptChains \ dirtyChains # {}
    /\ dirtyChains # {}
    /\ dirtyInserts # {}

\* C5 as stated: one Apply call invokes the restore command at most 10
\* times.
C5_Original == hist.restoreCalls <= 10

\* C5: one Apply call invokes the restore command at most 1 + 10 times; it
\* sleeps after each failure but the last, 1 ms first and twice the previous
\* sleep then; after the last failure it takes one diagnostic snapshot and
\* panics, and it panics for no other reason when the save command works.
C5_RetryBound ==
    /\ hist.restoreCalls <= ApplyRetries + 1
    /\ Len(hist.sleeps) <= ApplyRetries
    /\ \A k \in 1..Len(hist.sleeps) : hist.sleeps[k] = InitialBackoff * 2 ^ (k - 1)
    /\ retries = ApplyRetries - Len(hist.sleeps)
    /\ pc = "loop" => hist.restoreCalls = Len(hist.sleeps)
    /\ pc = "panic" <=> hist.diags = 1
    /\ pc = "panic" =>
          /\ hist.restoreCalls = ApplyRetries + 1
          /\ Len(hist.sleeps) = ApplyRetries

C5_Witness ==
    /\ pc = "panic" /\ hist.diags = 1
    /\ hist.restoreCalls = 11
    /\ hist.sleeps = <<1, 2, 4, 8, 16, 32, 64, 128, 256, 512>>

\* C6: after a restore command failed the cache is flagged out of sync until
\* the state is read again; a further restore command of the same Apply runs
\* only after a read in its own attempt, and its transaction is one that
\* applyUpdates builds from the cache of that read, which holds the hashes of
\* the dataplane as long as no other process has written since.
C6_ReloadAfterFailure ==
    /\ (pc \in {"loop", "panic"} /\ hist.restoreCalls > 0 /\ ~hist.readThisAttempt)
          => ~inSyncWithDataPlane
    /\ (pc \in {"lock", "restore", "unlock"} /\ Len(hist.sleeps) > 0)
          => hist.readThisAttempt
    /\ (pc = "lock" /\ Len(hist.sleeps) > 0) =>
          /\ \E r \in RestoreInputs : r.input = restoreInput
          /\ ~hist.extSinceLoad =>
                chainToDataplaneHashes = attemptToGetHashesFromDataplane(dataplane)

C6_Witness ==
    /\ pc = "lock" /\ Len(hist.sleeps) > 0
    /\ hist.readThisAttempt
    /\ hist.extDuringApply /\ ~hist.extSinceLoad

\* C7 as stated: when Apply starts with a cache it believes in sync while
\* another process has changed the dataplane away from the desired content,
\* and nobody writes during the call, the call reloads and leaves the
\* dataplane converged.
C7_Original ==
    (pc = "returned" /\ hist.driftAtStart /\ NoExternalWriteDuringApply) =>
        /\ hist.reloaded
        /\ Converged(dataplane)

\* C7: when Apply starts with a cache it believes in sync while another
\* process has changed the dataplane away from the desired content, and the
\* call reloads the dataplane state (a timer fired), and nobody writes during
\* the call, it has run an accepted restore command and the dataplane is
\* converged on return.
C7_DriftRepaired ==
    (pc = "returned" /\ hist.driftAtStart /\ hist.reloaded
        /\ NoExternalWriteDuringApply) =>
            /\ hist.wrote
            /\ Converged(dataplane)

C7_Witness ==
    /\ pc = "returned" /\ hist.driftAtStart /\ hist.reloaded
    /\ NoExternalWriteDuringApply
    /\ hist.wrote
    /\ Converged(dataplane)
    /\ "cali-a" \in DOMAIN chainNameToChain
    /\ Len(chainNameToChain["cali-a"]) = 2

HookedChains ==
    {c \in DOMAIN chainToDataplaneHashes :
        ~ourChainsRegexp(c) /\ Len(RulesOf(chainToInsertedRules, c)) > 0}

C8_Step ==
    /\ (~inSyncWithDataPlane /\ inSyncWithDataPlane') =>
          \A c \in HookedChains :
              ~KnownDirty(c) =>
                  (c \in dirtyInserts' <=>
                      ~(/\ c \in DOMAIN chainToDataplaneHashes'
                        /\ InsertLayoutOk(chainToDataplaneHashes'[c], c)))
    /\ (pc = "loop" /\ inSyncWithDataPlane /\ pc' \in {"lock", "returned"}) =>
          \A c \in HookedChains :
              (LinesFor(restoreInput', c) # <<>> <=>
                  (c \in dirtyInserts /\ ~InsertLayoutOk(chainToDataplaneHashes[c], c)))

\* C8: a reload marks a chain that is not ours, has declared insertions and
\* is not already dirty, exactly when the hashes just read do not hold our
\* hashes contiguous and in declared order at the head (insert mode) or tail
\* (append mode) with rules without hash elsewhere, however many such rules
\* there are now; and applyUpdates writes lines for such a chain exactly when
\* it is dirty and its cached hashes do not have that layout.
C8_InsertionCountAdaptation == [][C8_Step]_vars

C8_Witness ==
    /\ pc = "loop" /\ inSyncWithDataPlane /\ hist.readThisAttempt
    /\ extLeft < MaxExt
    /\ "FORWARD" \notin dirtyInserts
    /\ Len(RulesOf(chainToInsertedRules, "FORWARD")) > 0
    /\ numEmptyStrings(chainToDataplaneHashes["FORWARD"]) = 2

\* C9: while a restore command is about to run, runs or has returned, the
\* dataplane state has been read in this attempt of this Apply call and the
\* cache has not been invalidated since.
C9_ReadBeforeWrite ==
    pc \in {"lock", "restore", "unlock"} =>
        /\ hist.readThisAttempt
        /\ inSyncWithDataPlane
        /\ lastReadTime = now

C9_Witness ==
    /\ pc = "restore"
    /\ Len(hist.sleeps) > 0
    /\ hist.readThisAttempt
    /\ opsLeft < MaxOps - 1

InRestore ==
    {t \in {Name} : pc \in {"restore", "unlock"}}
        \cup {s \in DOMAIN sibling : sibling[s] \in {"restore", "unlock"}}

C11_FreshTable ==
    ~hist.everRead =>
        /\ ~inSyncWithDataPlane
        /\ pc \in {"idle", "loop", "panic"}
        /\ restoreInput = <<>>
        /\ hist.restoreCalls = 0
        /\ ~hist.wrote

\* The first Apply, which read the dataplane after a failed attempt of
\* iptables-save, has built a transaction.
C11_Witness ==
    /\ pc = "lock"
    /\ hist.everRead
    /\ ~hist.clean /\ opsLeft = MaxOps - 1 /\ extLeft = MaxExt
    /\ saveFailLeft < MaxSaveFail
    /\ restoreInput # <<>>

\* The entries of a map of the desired state for the names other than c.
OtherEntries(m, c) == [x \in DOMAIN m \ {c} |-> m[x]]

\* C12: a step of SetRuleInsertions(c, rules) leaves the insertion list of
\* c equal to rules, c in dirtyInserts and the cache invalid; a step of
\* UpdateChain(c, rules) leaves the desired chain c equal to rules, c in
\* dirtyChains and the cache invalid; either step leaves the entries of
\* every other name, the other map of the desired state, the cached
\* dataplane hashes and the dataplane as they were.
C12_Step ==
    \A c \in ChainNames, rules \in ChainBodies :
        /\ SetRuleInsertions(c, rules) =>
              /\ c \in DOMAIN chainToInsertedRules'
              /\ chainToInsertedRules'[c] = rules
              /\ c \in dirtyInserts'
              /\ ~inSyncWithDataPlane'
              /\ OtherEntries(chainToInsertedRules', c)
                    = OtherEntries(chainToInsertedRules, c)
              /\ chainNameToChain' = chainNameToChain
              /\ chainToDataplaneHashes' = chainToDataplaneHashes
              /\ dataplane' = dataplane
        /\ UpdateChain(c, rules) =>
              /\ c \in DOMAIN chainNameToChain'
              /\ chainNameToChain'[c] = rules
              /\ c \in dirtyChains'
              /\ ~inSyncWithDataPlane'
              /\ OtherEntries(chainNameToChain', c) = OtherEntries(chainNameToChain, c)
              /\ chainToInsertedRules' = chainToInsertedRules
              /\ chainToDataplaneHashes' = chainToDataplaneHashes
              /\ dataplane' = dataplane

C12_DesiredStateFrame == [][C12_Step]_vars

\* After an Apply has brought the table in sync, both calls have been made:
\* the insertion list of FORWARD and the chain cali-a hold rules, both names
\* are dirty and the cache is invalid next to a cache that holds hashes.
C12_Witness ==
    /\ pc = "idle" /\ opsLeft = 0
    /\ ~inSyncWithDataPlane
    /\ chainToDataplaneHashes # EmptyMap
    /\ "FORWARD" \in dirtyInserts /\ chainToInsertedRules["FORWARD"] # <<>>
    /\ "cali-a" \in dirtyChains /\ "cali-a" \in DOMAIN chainNameToChain
    /\ chainNameToChain["cali-a"] # <<>>

\* C13 as stated: a step of RemoveChainByName(c) leaves no desired chain c,
\* c in dirtyChains and the cache invalid, for every name c.
C13_OriginalStep ==
    \A c \in ChainNames :
        RemoveChainByName(c) =>
            /\ c \notin DOMAIN chainNameToChain'
            /\ c \in dirtyChains'
            /\ ~inSyncWithDataPlane'

C13_Original == [][C13_OriginalStep]_vars

\* C13: a step of RemoveChainByName(c) leaves no desired chain c and the
\* cache invalid; c is added to dirtyChains when c was a desired chain, and
\* dirtyChains is left as it was when c was not.
C13_Step ==
    \A c \in ChainNames :
        RemoveChainByName(c) =>
            /\ c \notin DOMAIN chainNameToChain'
            /\ ~inSyncWithDataPlane'
            /\ OtherEntries(chainNameToChain', c) = OtherEntries(chainNameToChain, c)
            /\ IF c \in DOMAIN chainNameToChain
               THEN dirtyChains' = dirtyChains \cup {c}
               ELSE dirtyChains' = dirtyChains

C13_RemoveChain == [][C13_Step]_vars

\* A desired chain has been removed after an Apply had written it: the name
\* is dirty and no longer desired, with a cache that was valid before.
C13_Witness ==
    /\ pc = "idle" /\ opsLeft = 0
    /\ "cali-a" \notin DOMAIN chainNameToChain
    /\ "cali-a" \in dirtyChains
    /\ "cali-a" \in DOMAIN chainToDataplaneHashes
    /\ chainToDataplaneHashes["cali-a"] = RuleHashes("cali-a", <<"r2">>)
    /\ ~inSyncWithDataPlane

\* The refresh interval is set and has elapsed since the last read.
RefreshElapsed == refreshInterval > 0 /\ now - lastReadTime > refreshInterval

\* C14: a running Apply for which the refresh interval has elapsed since
\* the last read is at the top of its loop with the cache invalid, where it
\* can only reload: it gets no further without a read at the current time.
C14_ReloadPending ==
    (pc # "idle" /\ RefreshElapsed) => (pc = "loop" /\ ~inSyncWithDataPlane)

\* C14: Apply starts by invalidating the cache when the refresh interval has
\* elapsed; with refresh interval 0 and a post-write interval that is not
\* doubled it leaves the flag as it was.
C14_StartStep ==
    ApplyStart =>
        /\ RefreshElapsed => ~inSyncWithDataPlane'
        /\ (refreshInterval = 0 /\ postWriteInterval' = postWriteInterval)
              => inSyncWithDataPlane' = inSyncWithDataPlane

PostWriteElapsed(i) == i # 0 /\ i < Hour /\ now >= lastWriteTime + i

\* C15: the start of Apply doubles the post-write interval k times, where
\* each of the k values doubled had elapsed and the value left has not (or
\* has reached an hour), and invalidates the cache if k > 0; a command that
\* succeeded sets the interval back to its initial value and records the
\* write; no other step changes the interval: not an empty transaction,
\* not a failed command.
C15_Step ==
    /\ ApplyStart =>
          \E k \in 0..Hour :
              /\ postWriteInterval' = postWriteInterval * (2 ^ k)
              /\ \A j \in 0..(k - 1) : PostWriteElapsed(postWriteInterval * (2 ^ j))
              /\ ~PostWriteElapsed(postWriteInterval')
              /\ k > 0 => ~inSyncWithDataPlane'
    /\ (pc = "unlock" /\ pc' # pc) =>
          IF restoreErr
          THEN UNCHANGED <<postWriteInterval, lastWriteTime>>
          ELSE postWriteInterval' = initialPostWriteInterval /\ lastWriteTime' = now
    /\ (pc \notin {"idle", "unlock"}) => UNCHANGED <<postWriteInterval, lastWriteTime>>
    /\ pc' = pc => UNCHANGED <<postWriteInterval, lastWriteTime>>

C15_PostWriteBackoff == [][C15_Step]_vars

\* The first Apply, started two intervals after the Table was made, doubled
\* the interval twice; its first command failed, its second succeeded and
\* set the interval back.
C15_Witness ==
    /\ pc = "returned"
    /\ ~hist.clean /\ extLeft = MaxExt
    /\ now = 2 * initialPostWriteInterval
    /\ "postWrite" \in hist.timers
    /\ hist.sleeps # <<>>
    /\ hist.wrote
    /\ postWriteInterval = initialPostWriteInterval /\ lastWriteTime = now

\* The time left until each enabled timer is due.
TimersRemaining ==
    (IF refreshInterval > 0 THEN {refreshInterval - (now - lastReadTime)} ELSE {})
    \cup (IF postWriteInterval < Hour
          THEN {lastWriteTime + postWriteInterval - now} ELSE {})

StrictlyPositive(d) == d.units > 0 \/ (d.units = 0 /\ d.ms > 0)

\* C16 as stated: where Apply returns with a timer enabled, the duration it
\* returns is the least time left over the enabled timers, or one
\* millisecond when that time is not positive, and is strictly positive.
C16_Original ==
    (pc = "returned" /\ TimersRemaining # {}) =>
        LET least == CHOOSE m \in TimersRemaining : \A n \in TimersRemaining : m <= n
        IN /\ rescheduleAfter = IF least <= 0 THEN OneMillisecond ELSE Duration(least)
           /\ StrictlyPositive(rescheduleAfter)

\* What the code returns where C16 fails: the zero duration, with the
\* refresh interval just reached and no reload made by this Apply.
C16_ZeroReturned ==
    /\ pc = "returned"
    /\ refreshInterval > 0 /\ now - lastReadTime = refreshInterval
    /\ ~hist.reloaded
    /\ rescheduleAfter = Duration(0)

\* Where no enabled timer is due on the spot, Apply returns the least time
\* left over the enabled timers.
C16_LeastRemaining ==
    (pc = "returned" /\ TimersRemaining # {} /\ \A m \in TimersRemaining : m > 0) =>
        /\ rescheduleAfter.ms = 0
        /\ rescheduleAfter.units \in TimersRemaining
        /\ \A m \in TimersRemaining : rescheduleAfter.units <= m

\* C17 as stated: no transaction holds a --delete-chain line for a kernel
\* chain, whatever public operations were called.
C17_Original ==
    \A i \in 1..Len(restoreInput) :
        restoreInput[i].op = "X" => restoreInput[i].chain \notin tableToKernelChains(Name)

\* Where C17 fails: the transaction on its way to iptables-restore deletes
\* FORWARD, after UpdateChain and RemoveChainByName were called with it.
C17_KernelChainDeleted ==
    /\ pc = "restore"
    /\ "FORWARD" \notin DOMAIN chainNameToChain
    /\ \E i \in 1..Len(restoreInput) :
          restoreInput[i].op = "X" /\ restoreInput[i].chain = "FORWARD"

\* The rule lines of a chain, in the order of the input.
AppendsOf(lines, chainName) ==
    SelectSeq(lines, LAMBDA l : l.kind = "append" /\ l.chain = chainName)

\* The rule lines of a chain below the last declaration of that chain: all
\* its rule lines where no declaration of the chain lies below one of them,
\* as in the output of iptables-save.
RulesSinceDecl(lines, chainName) ==
    LET decls == {i \in 1..Len(lines) :
                     lines[i].kind = "decl" /\ lines[i].chain = chainName}
        last == IF decls = {} THEN 0 ELSE CHOOSE i \in decls : \A j \in decls : j <= i
    IN AppendsOf(SubSeq(lines, last + 1, Len(lines)), chainName)

\* The chains that have a declaration or a rule line.
ChainsIn(lines) ==
    {lines[i].chain : i \in {j \in 1..Len(lines) : lines[j].kind \in {"decl", "append"}}}

\* The fingerprint C18 gives a rule line.
Fingerprint(l) ==
    IF l.prefix = hashCommentPrefix /\ l.hash # EmptyHash THEN l.hash
    ELSE IF l.rule \in LegacyRules THEN OldInsertRule
    ELSE EmptyHash

\* C18: every entry readHashesFrom returns is the fingerprint of its rule
\* line: the hash of the line's comment if it has a hash comment with our
\* prefix, also when the rule matches the pattern of old rules; else
\* "OLD INSERT RULE" if the rule matches that pattern; else the empty string.
C18_Fingerprints ==
    (readResult.returned /\ ~readResult.err) =>
        \A c \in ChainsIn(saveOutput) :
            LET appends == RulesSinceDecl(saveOutput, c) IN
               /\ c \in DOMAIN readResult.hashes
               /\ Len(readResult.hashes[c]) = Len(appends)
               /\ \A k \in 1..Len(appends) :
                     readResult.hashes[c][k] = Fingerprint(appends[k])

\* A rule with our hash comment that also matches the pattern of old rules
\* got its hash, next to an old rule without hash that got the sentinel and
\* a rule with a comment of another prefix that got the empty string.
C18_Witness ==
    /\ readResult.returned /\ ~readResult.err
    /\ Len(saveOutput) = 3
    /\ \A i \in 1..3 : saveOutput[i].kind = "append" /\ saveOutput[i].chain = "FORWARD"
    /\ saveOutput[1].prefix = hashCommentPrefix /\ saveOutput[1].rule = "-j cali-old"
    /\ saveOutput[2].prefix = "" /\ saveOutput[2].rule = "an-old-rule"
    /\ saveOutput[3].prefix = "other:" /\ saveOutput[3].rule = ForeignRule
    /\ readResult.hashes["FORWARD"]
          = <<RuleHash("cali-a", 1, "r1"), OldInsertRule, EmptyHash>>

C20_Original == pc = "returned" => hist.refreshFeatures = 1

\* C20: RefreshFeatures is invoked once by each call of loadDataplaneState
\* and nowhere else: an Apply that does not reload has not invoked it, an
\* Apply that reloads has invoked it once per attempt; every transaction is
\* built after the RefreshFeatures of its own attempt.
C20_RefreshPerLoad ==
    /\ pc \in {"lock", "restore", "unlock", "returned"} =>
          hist.refreshFeatures = IF hist.reloaded THEN Len(hist.sleeps) + 1 ELSE 0
    /\ (pc \in {"lock", "restore", "unlock"} \/ hist.wrote) =>
          hist.readThisAttempt /\ hist.refreshFeatures >= 1

\* An Apply that wrote on its second attempt has invoked RefreshFeatures
\* twice.
C20_Witness ==
    /\ pc = "returned"
    /\ hist.wrote
    /\ Len(hist.sleeps) = 1
    /\ hist.refreshFeatures = 2

\* The lists of rules the table hashes in this state: the rules of each
\* desired chain and the rules inserted into each insertion target, each
\* with the fingerprints computed for it.
C21_Hashed ==
    {<<c, chainNameToChain[c], ChainRuleHashes(c).elems>> : c \in DOMAIN chainNameToChain}
    \cup {<<c, chainToInsertedRules[c],
            calculateRuleInsertHashes(c, chainToInsertedRules[c])>> :
          c \in DOMAIN chainToInsertedRules}

C22_AppendLines(chainName) ==
    LET lines == SelectSeq(restoreInput,
                           LAMBDA l : l.op = "A" /\ l.chain = chainName)
    IN [k \in 1..Len(lines) |-> SaveLine("append", chainName, DpLine(lines[k]))]

\* The fingerprints of the rules the table wants in a chain: those of the
\* desired chain, or those of the rules inserted into an insertion target.
C22_Fingerprints(chainName) ==
    IF chainName \in DOMAIN chainNameToChain
    THEN RuleHashes(chainName, chainNameToChain[chainName])
    ELSE calculateRuleInsertHashes(chainName, RulesOf(chainToInsertedRules, chainName))

C25_Step ==
    (~inSyncWithDataPlane /\ inSyncWithDataPlane') =>
        \A c \in DOMAIN chainToDataplaneHashes :
            (ourChainsRegexp(c) /\ c \notin dirtyChains /\ c \notin dirtyInserts) =>
                (c \in dirtyChains' <=>
                    ~(/\ c \in DOMAIN chainToDataplaneHashes'
                      /\ chainToDataplaneHashes'[c] = chainToDataplaneHashes[c]))

\* C25: a reload adds a chain that is in the cache, matches the pattern of
\* our chains and is not already dirty to the dirty chains exactly when the
\* fingerprints just read for it (which become its cache entry) are not
\* equal to its cached fingerprints, a chain absent from the dataplane
\* included; when they are equal the chain is not added.
C25_ReloadComparesOwned == [][C25_Step]_vars

\* An Apply that started with a clean cache has reloaded and found the rules
\* of one of our chains changed by somebody else.
C25_Witness ==
    /\ pc = "loop" /\ inSyncWithDataPlane
    /\ hist.driftAtStart /\ hist.readThisAttempt
    /\ \E c \in dirtyChains :
          /\ ourChainsRegexp(c)
          /\ c \in DOMAIN chainNameToChain
          /\ c \in DOMAIN chainToDataplaneHashes
          /\ chainToDataplaneHashes[c] # RuleHashes(c, chainNameToChain[c])

\* The positions of the hashes read for a chain that are not empty: rules
\* with a hash of ours or of the old kind.
C26_Hooks(hashes, chainName) ==
    {i \in 1..Len(RulesOf(hashes, chainName)) : hashes[chainName][i] # EmptyHash}

\* The chains that are not ours and have no declared insertions.
C26_Unhooked ==
    {c \in ChainNames :
        ~ourChainsRegexp(c) /\ Len(RulesOf(chainToInsertedRules, c)) = 0}

C26_Step ==
    (~inSyncWithDataPlane /\ inSyncWithDataPlane') =>
        \A c \in C26_Unhooked :
            C26_Hooks(chainToDataplaneHashes', c) # {} => c \in dirtyInserts'

C26_Lines ==
    pc \in {"lock", "restore"} =>
        \A c \in C26_Unhooked :
            LET lines == LinesFor(restoreInput, c) IN
            /\ \A k \in 1..Len(lines) : lines[k].op = "D"
            /\ {lines[k].num : k \in 1..Len(lines)} = C26_Hooks(chainToDataplaneHashes, c)
            /\ Len(lines) = Cardinality(C26_Hooks(chainToDataplaneHashes, c))

\* C26: when a reload reads a rule with a non-empty hash in a chain that is
\* not ours and has no declared insertions, whether the cache knows the
\* chain or not, the chain is in the dirty inserts after the reload; and the
\* transaction built from that reload holds, for such a chain, one delete
\* line for each position read with a non-empty hash and no other line.
\* Kernel chains are dirty inserts from construction, so this covers the
\* first Apply.
C26_ForeignPollutionCleanup == []C26_Lines /\ [][C26_Step]_vars

\* The first Apply deletes the old rule of a previous run from FORWARD and the
\* hashed rule from DOCKER, a chain the cache did not know.
C26_Witness ==
    /\ pc = "restore"
    /\ lastWriteTime = 0 /\ hist.restoreCalls = 1 /\ hist.sleeps = <<>>
    /\ \E k \in 1..Len(restoreInput) :
          restoreInput[k].op = "D" /\ restoreInput[k].chain = "FORWARD"
              /\ restoreInput[k].num = 1
    /\ \E k \in 1..Len(restoreInput) :
          restoreInput[k].op = "D" /\ restoreInput[k].chain = "DOCKER"
              /\ restoreInput[k].num = 2
    /\ "DOCKER" \notin DOMAIN chainToInsertedRules


C27_Step ==
    (~inSyncWithDataPlane /\ inSyncWithDataPlane') =>
        \A c \in DOMAIN chainToDataplaneHashes' :
            (/\ ourChainsRegexp(c)
             /\ c \notin DOMAIN chainToDataplaneHashes
             /\ c \notin dirtyChains /\ c \notin dirtyInserts) => c \in dirtyChains'

C27_Deleted ==
    /\ pc \in {"lock", "restore"} =>
          \A c \in hist.attemptChains :
              (ourChainsRegexp(c) /\ c \notin DOMAIN chainNameToChain) =>
                  \E i, j \in 1..Len(restoreInput) :
                      /\ i < j
                      /\ restoreInput[i].op = "fwd" /\ restoreInput[i].chain = c
                      /\ restoreInput[j].op = "X" /\ restoreInput[j].chain = c
    /\ pc = "returned" =>
          \A c \in DOMAIN chainToDataplaneHashes :
              ourChainsRegexp(c) => c \in DOMAIN chainNameToChain

\* C27: a reload adds a chain it reads from the dataplane that matches the
\* pattern of our chains and is neither in the cache nor dirty to the dirty
\* chains; the transaction of an attempt holds, for every dirty chain of ours
\* that is not desired, a forward reference (flush) and after it a
\* --delete-chain line; and when Apply returns the cache has no entry for a
\* chain of ours that is not desired.
C27_UnexpectedChainCleanup == []C27_Deleted /\ [][C27_Step]_vars

\* The first Apply has read a chain of ours left by a previous run, which
\* nobody asked for, and its transaction flushes and deletes it.
C27_Witness ==
    /\ pc = "restore"
    /\ "cali-b" \in hist.attemptChains
    /\ "cali-b" \in DOMAIN chainToDataplaneHashes
    /\ "cali-b" \notin DOMAIN chainNameToChain
    /\ \E j \in 1..Len(restoreInput) :
          restoreInput[j].op = "X" /\ restoreInput[j].chain = "cali-b"


\* C28: in every transaction given to iptables-restore, every --delete-chain
\* line comes after every replace, append, insert and delete-by-position
\* line, and every chain with a --delete-chain line has a forward reference
\* (flush) line earlier in the text.
C28_DeletionsLast ==
    pc \in {"lock", "restore"} =>
        \A j \in 1..Len(restoreInput) :
            restoreInput[j].op = "X" =>
                /\ \A i \in 1..Len(restoreInput) :
                      restoreInput[i].op \in {"R", "A", "I", "D"} => i < j
                /\ \E i \in 1..(j - 1) :
                      /\ restoreInput[i].op = "fwd"
                      /\ restoreInput[i].chain = restoreInput[j].chain

\* A transaction that deletes a chain the cache knows, rewrites a chain and
\* deletes a rule of an insertion target.
C28_Witness ==
    /\ pc = "restore"
    /\ \E j \in 1..Len(restoreInput) :
          /\ restoreInput[j].op = "X"
          /\ restoreInput[j].chain \in DOMAIN chainToDataplaneHashes
    /\ \E i \in 1..Len(restoreInput) : restoreInput[i].op \in {"R", "A"}
    /\ \E i \in 1..Len(restoreInput) : restoreInput[i].op \in {"I", "D"}


\* The lines of a chain in the transaction are a forward reference followed
\* by one append line per rule of the desired chain, in the order of the
\* rules.
C29_FlushedAndAppended(c) ==
    LET lines == LinesFor(restoreInput, c)
        rules == chainNameToChain[c]
    IN /\ Len(lines) = Len(rules) + 1
       /\ lines[1].op = "fwd"
       /\ \A k \in 1..Len(rules) :
             /\ lines[k + 1].op = "A"
             /\ lines[k + 1].rule = rules[k]
             /\ lines[k + 1].hash = RuleHashes(c, rules)[k]

\* Every --delete-chain line stands in a second block: before it the first
\* block is closed, and between that COMMIT and the line the forward
\* reference of the chain is repeated.
C29_DeletedInSecondBlock ==
    \A j \in 1..Len(restoreInput) :
        restoreInput[j].op = "X" =>
            \E i, k, m \in 1..(j - 1) :
                /\ i < k /\ k < m
                /\ restoreInput[i].op = "fwd"
                /\ restoreInput[i].chain = restoreInput[j].chain
                /\ restoreInput[k].op = "COMMIT"
                /\ restoreInput[k + 1].op = "table"
                /\ restoreInput[m].op = "fwd"
                /\ restoreInput[m].chain = restoreInput[j].chain

C29_Transaction(correct(_)) ==
    (nftablesMode /\ pc \in {"lock", "restore"}) =>
        /\ \A i \in 1..Len(restoreInput) : restoreInput[i].op # "R"
        /\ \A c \in hist.attemptChains \cap DOMAIN chainNameToChain :
              ourChainsRegexp(c) =>
                  IF correct(c) THEN LinesFor(restoreInput, c) = <<>>
                  ELSE C29_FlushedAndAppended(c)
        /\ C29_DeletedInSecondBlock

\* C29 as stated: a dirty chain whose desired hashes equal the cached ones
\* is skipped.
C29_Original ==
    C29_Transaction(LAMBDA c : /\ c \in DOMAIN chainToDataplaneHashes
                               /\ chainToDataplaneHashes[c]
                                     = RuleHashes(c, chainNameToChain[c]))

\* C29: in nft mode no transaction holds a replace line; a dirty desired
\* chain of ours is skipped when its cached hashes are not empty and equal
\* its desired hashes, and otherwise (the hashes differ, the chain is not in
\* the cache, or the cached list is empty) it is flushed by a forward
\* reference and all its rules are appended; every --delete-chain line
\* stands in a second block, opened after the first is closed, that repeats
\* the forward reference before it.
C29_NftRewrite ==
    C29_Transaction(LAMBDA c : /\ c \in DOMAIN chainToDataplaneHashes
                               /\ chainToDataplaneHashes[c] # <<>>
                               /\ chainToDataplaneHashes[c]
                                     = RuleHashes(c, chainNameToChain[c]))

\* In nft mode a transaction rewrites a chain of two rules whose first rule
\* is in the dataplane already, and deletes another chain.
C29_Witness ==
    /\ nftablesMode /\ pc = "restore"
    /\ \E c \in hist.attemptChains \cap DOMAIN chainNameToChain :
          /\ Len(chainNameToChain[c]) = 2
          /\ Len(RulesOf(chainToDataplaneHashes, c)) = 1
          /\ chainToDataplaneHashes[c][1] = RuleHashes(c, chainNameToChain[c])[1]
          /\ C29_FlushedAndAppended(c)
    /\ \E j \in 1..Len(restoreInput) : restoreInput[j].op = "X"


\* The layout expected of an insertion target whose cached hashes are h: as
\* many empty hashes as h has, with the hashes of the declared insertions
\* before them (insert mode) or after them (append mode).
C30_Expected(c, h) ==
    LET our == RuleHashes(c, RulesOf(chainToInsertedRules, c))
        empties == SelectSeq(h, LAMBDA x : x = EmptyHash)
    IN IF insertMode = "insert" THEN our \o empties ELSE empties \o our

\* The lines of an insertion target that is out of sync: one delete line for
\* each position with a non-empty cached hash, in strictly descending order
\* of position, then the declared insertions, as inserts at the head from
\* the last to the first or as appends from the first to the last.
C30_DeleteThenRender(c, h) ==
    LET lines == LinesFor(restoreInput, c)
        rules == RulesOf(chainToInsertedRules, c)
        ours == {i \in 1..Len(h) : h[i] # EmptyHash}
        d == Cardinality(ours)
    IN /\ Len(lines) = d + Len(rules)
       /\ \A k \in 1..d : lines[k].op = "D"
       /\ {lines[k].num : k \in 1..d} = ours
       /\ \A k \in 1..(d - 1) : lines[k].num > lines[k + 1].num
       /\ \A k \in 1..Len(rules) :
             IF insertMode = "insert"
             THEN /\ lines[d + k].op = "I"
                  /\ lines[d + k].rule = rules[Len(rules) + 1 - k]
             ELSE /\ lines[d + k].op = "A"
                  /\ lines[d + k].rule = rules[k]

C30_Lines ==
    pc \in {"lock", "restore"} =>
        \A c \in hist.attemptInserts :
            ~ourChainsRegexp(c) =>
                LET h == RulesOf(chainToDataplaneHashes, c) IN
                IF c \in DOMAIN chainToDataplaneHashes /\ h = C30_Expected(c, h)
                THEN LinesFor(restoreInput, c) = <<>>
                ELSE C30_DeleteThenRender(c, h)

\* The rules of a chain of the dataplane that carry no hash of ours and do
\* not match the pattern of old rules.
C30_Foreign(dp, c) ==
    SelectSeq(dp[c], LAMBDA l : LineHash(SaveLine("append", c, l)) = EmptyHash)

C30_Step ==
    (pc = "restore" /\ pc' = "unlock" /\ ~restoreErr' /\ ~hist.extSinceLoad) =>
        \A c \in hist.attemptInserts :
            (~ourChainsRegexp(c) /\ c \in DOMAIN dataplane) =>
                /\ c \in DOMAIN dataplane'
                /\ InsertLayoutOk(attemptToGetHashesFromDataplane(dataplane')[c], c)
                /\ C30_Foreign(dataplane', c) = C30_Foreign(dataplane, c)

\* C30: for a dirty insertion target whose cached layout is not the expected
\* one, the transaction first deletes every rule with a non-empty cached
\* hash in strictly descending order of position and then renders all
\* declared insertions (last to first as inserts in insert mode, first to
\* last as appends in append mode); for one whose cached layout is the
\* expected one it holds no line; and when the restore command runs on the
\* dataplane as it was read, our rules stand afterwards together in declared
\* order at the head or tail and the foreign rules keep their order.
C30_InsertRewrite == []C30_Lines /\ [][C30_Step]_vars

\* The restore command has run a transaction that deleted two rules with a
\* hash from FORWARD, above and below a foreign rule, and inserted two
\* declared rules.
C30_Witness ==
    /\ pc = "unlock" /\ ~restoreErr /\ ~hist.extSinceLoad
    /\ "FORWARD" \in hist.attemptInserts
    /\ Len(RulesOf(chainToInsertedRules, "FORWARD")) = 2
    /\ LET lines == LinesFor(restoreInput, "FORWARD") IN
          /\ Len(lines) = 4
          /\ lines[1].op = "D" /\ lines[2].op = "D"
          /\ lines[1].num > lines[2].num + 1
    /\ C30_Foreign(dataplane, "FORWARD") # <<>>


C31_Step ==
    (/\ pc = "loop" /\ inSyncWithDataPlane
     /\ \A r \in RestoreInputs : r.input = <<>>) =>
        /\ pc' = "returned"
        /\ calicoXtablesLock' = calicoXtablesLock
        /\ dataplane' = dataplane
        /\ hist'.restoreCalls = hist.restoreCalls
        /\ lastWriteTime' = lastWriteTime
        /\ postWriteInterval' = postWriteInterval
        /\ dirtyChains' = {} /\ dirtyInserts' = {}

\* C31: when the transaction an attempt computes is empty, applyUpdates
\* goes straight to its end: the lock is not taken, the restore command is
\* not run, the last-write time and the post-write interval stay as they
\* are, both dirty sets are cleared and Apply returns; the lock is only
\* taken, and the command only run, with a transaction that is not empty.
C31_EmptyTransaction ==
    /\ [](pc \in {"lock", "restore", "unlock"} => restoreInput # <<>>)
    /\ [][C31_Step]_vars

\* Apply returns after a reload without a restore command although the
\* desired state was touched since the last call and the post-write interval
\* was doubled at its start.
C31_Witness ==
    /\ pc = "returned"
    /\ hist.changedSinceApply /\ hist.reloaded
    /\ hist.restoreCalls = 0
    /\ "postWrite" \in hist.timers
    /\ dirtyChains = {} /\ dirtyInserts = {}


\* While a reload is retrying, and when it has given up, the cache is not
\* marked in sync and no transaction exists; the sleeps so far are 100 ms
\* doubled each time, one per retry used, and at most three.
C32_Retrying ==
    /\ saveRetries \in 0..3
    /\ Len(hist.saveSleeps) = 3 - saveRetries
    /\ \A k \in 1..Len(hist.saveSleeps) : hist.saveSleeps[k] = 100 * 2 ^ (k - 1)
    /\ (hist.saveSleeps # <<>> \/ pc = "panic") =>
          /\ pc \in {"loop", "panic"}
          /\ ~inSyncWithDataPlane
          /\ restoreInput = <<>>
    /\ pc \in {"lock", "restore", "unlock"} => hist.readThisAttempt

\* A step in which the save command fails.
C32_Step ==
    saveFailLeft' # saveFailLeft =>
        /\ IF Len(hist.saveSleeps) < 3
           THEN pc' = pc /\ hist'.saveSleeps = Append(hist.saveSleeps, retryDelay)
           ELSE pc' = "panic" /\ hist'.saveSleeps = hist.saveSleeps
        /\ ~inSyncWithDataPlane'
        /\ UNCHANGED <<dirtyChains, dirtyInserts, chainToDataplaneHashes, dataplane,
                       restoreInput, calicoXtablesLock>>

C33_Original ==
    \A i \in 1..Len(restoreInput) :
        /\ restoreInput[i].op \in {"fwd", "R", "X"} => ourChainsRegexp(restoreInput[i].chain)
        /\ restoreInput[i].op = "I" => ~ourChainsRegexp(restoreInput[i].chain)

\* Where C33 fails: after UpdateChain was called for FORWARD, a name the
\* pattern does not match, the transaction flushes FORWARD and rewrites it
\* as an owned chain.
C33_NonOwnedRewritten ==
    /\ pc = "restore"
    /\ ~ourChainsRegexp("FORWARD")
    /\ "FORWARD" \in DOMAIN chainNameToChain
    /\ \E i \in 1..Len(restoreInput) :
          restoreInput[i].op = "fwd" /\ restoreInput[i].chain = "FORWARD"

\* What an attempt of Apply leaves behind when it sends the given input:
\* the dataplane, whether the command failed, and the cache if it did not.
C34_Outcome(r) ==
    IF r.input = <<>>
    THEN [dp |-> dataplane, err |-> FALSE,
          cache |-> StoreNewHashes(chainToDataplaneHashes, r.newHashes)]
    ELSE LET res == RestoreExec(dataplane, r.input) IN
         [dp |-> res.dp, err |-> res.err,
          cache |-> IF res.err THEN chainToDataplaneHashes
                    ELSE StoreNewHashes(chainToDataplaneHashes, r.newHashes)]

\* C34: where applyUpdates builds its transaction, the dataplane and the
\* cache that result are the same for every order in which the passes can
\* iterate the dirty-chains and dirty-inserts sets.
C34_OrderIndependent ==
    (pc = "loop" /\ inSyncWithDataPlane) =>
        \A r1, r2 \in RestoreInputs : C34_Outcome(r1) = C34_Outcome(r2)

\* An attempt with two chains to delete and two insertion targets, for
\* which the iteration orders give different transactions.
C34_Witness ==
    /\ pc = "loop" /\ inSyncWithDataPlane
    /\ Cardinality(dirtyInserts) >= 2
    /\ Cardinality({c \in DirtyChainsAfterFirstPass : c \notin DOMAIN chainNameToChain}) >= 2
    /\ \E r1, r2 \in RestoreInputs : r1.input # r2.input

\* The lines of a transaction that name the chain, and whether one of them
\* deletes it.
C35_Touched(input, c) == \E i \in 1..Len(input) : input[i].chain = c
C35_Deleted(input, c) == \E i \in 1..Len(input) : input[i].chain = c /\ input[i].op = "X"

\* The cache after an attempt that sent the input, chain by chain: no entry
\* for a deleted chain, the hashes now in the dataplane for a written chain
\* (where nobody else wrote since the read), the entry as it was read for
\* every other chain.
C35_Stored(input) ==
    \A c \in DOMAIN chainToDataplaneHashes \cup DOMAIN chainToDataplaneHashes'
                \cup DOMAIN dataplane' :
        IF C35_Deleted(input, c) THEN c \notin DOMAIN chainToDataplaneHashes'
        ELSE IF C35_Touched(input, c)
        THEN /\ c \in DOMAIN chainToDataplaneHashes'
             /\ ~hist.extSinceLoad =>
                   /\ c \in DOMAIN dataplane'
                   /\ chainToDataplaneHashes'[c] =
                         attemptToGetHashesFromDataplane(dataplane')[c]
        ELSE /\ c \in DOMAIN chainToDataplaneHashes' <=> c \in DOMAIN chainToDataplaneHashes
             /\ c \in DOMAIN chainToDataplaneHashes =>
                   chainToDataplaneHashes'[c] = chainToDataplaneHashes[c]

C35_Step ==
    /\ (pc = "unlock" /\ ~restoreErr /\ pc' = "returned") => C35_Stored(restoreInput)
    /\ (pc = "loop" /\ inSyncWithDataPlane /\ pc' = "returned") => C35_Stored(<<>>)

\* C35 as stated: after an attempt that succeeded the cache holds, for every
\* chain the transaction wrote, the hashes just written, no entry for a
\* chain it deleted, and for every other chain the entry as read; when an
\* Apply that read the dataplane returns and no other process wrote during
\* it, the cache equals what iptables-save would return.
C35_Original ==
    /\ []((pc = "returned" /\ hist.reloaded /\ ~hist.extDuringApply) =>
             chainToDataplaneHashes = attemptToGetHashesFromDataplane(dataplane))
    /\ [][C35_Step]_vars

\* Where C35 fails: Apply has returned with a cache entry for DOCKER, a
\* chain that does not exist and that its last read, made after the chain
\* was deleted, did not list.
C35_PhantomEntry ==
    /\ pc = "returned"
    /\ hist.reloaded /\ ~hist.extSinceLoad
    /\ "DOCKER" \in DOMAIN chainToDataplaneHashes
    /\ "DOCKER" \notin DOMAIN dataplane
    /\ "DOCKER" \notin DOMAIN attemptToGetHashesFromDataplane(dataplane)

C36_NoPendingWork == dirtyChains = {} /\ dirtyInserts = {}

\* A step that starts an Apply call with work pending.
C36_Step ==
    (pc = "idle" /\ pc' = "loop" /\ ~C36_NoPendingWork) =>
        /\ ~inSyncWithDataPlane'
        /\ ~hist'.readThisAttempt

\* C36: between public operations, a cache flagged in sync goes with two
\* empty dirty sets, so an Apply call that starts with pending work starts
\* with the cache flagged out of sync and has to read; and when Apply
\* returns the flag is set and both dirty sets are empty.
C36_InSyncMeansClean ==
    /\ []((pc \in {"idle", "returned"} /\ inSyncWithDataPlane) => C36_NoPendingWork)
    /\ [](pc = "returned" => inSyncWithDataPlane /\ C36_NoPendingWork)
    /\ [][C36_Step]_vars

\* After an Apply call that left the cache in sync, a public operation has
\* queued work and the flag is cleared again.
C36_Witness ==
    /\ pc = "idle"
    /\ hist.everRead /\ hist.changedSinceApply
    /\ dirtyChains # {}
    /\ ~inSyncWithDataPlane

\* The Table holds the shared lock.
C37_Held == calicoXtablesLock = Name

\* While the Table holds the lock it takes two steps: the restore command
\* runs, once, and the lock is released with the return of the command.
C37_Step ==
    (C37_Held /\ pc' # pc) =>
        \/ pc = "restore" /\ pc' = "unlock" /\ hist'.restoreCalls = hist.restoreCalls
        \/ pc = "unlock" /\ calicoXtablesLock' = "free"

\* C37: the Table holds the shared lock only from the start of a restore
\* command to its return: not while it reads the dataplane with the save
\* command or waits to retry it, not while it waits after a failed restore
\* command, and not when Apply has returned or panicked; a sibling that
\* waits for the lock waits for one restore command of the Table.
C37_LockOnlyAroundRestore ==
    /\ []((pc = "loop" /\ ~inSyncWithDataPlane) => ~C37_Held)
    /\ []((pc = "loop" /\ (hist.sleeps # <<>> \/ hist.saveSleeps # <<>>)) => ~C37_Held)
    /\ [](pc \in {"idle", "returned", "panic", "lock"} => ~C37_Held)
    /\ []((pc = "loop" /\ inSyncWithDataPlane) => ~C37_Held)
    /\ [][C37_Step]_vars

\* After a failed restore command the Table is about to read the dataplane
\* again, has waited for a retry of the save command, and a sibling has the
\* lock and runs its own restore command.
C37_Witness ==
    /\ pc = "loop" /\ ~inSyncWithDataPlane
    /\ hist.sleeps # <<>> /\ hist.saveSleeps # <<>>
    /\ \E s \in DOMAIN sibling : sibling[s] = "restore" /\ calicoXtablesLock = s

\* The delete-by-position lines of the transaction for chains that the
\* pattern does not match name positions whose cached hash is not empty.
C38_Lines ==
    pc \in {"lock", "restore", "unlock"} =>
        \A i \in 1..Len(restoreInput) :
            (restoreInput[i].op = "D" /\ ~ourChainsRegexp(restoreInput[i].chain)) =>
                /\ restoreInput[i].chain \in DOMAIN chainToDataplaneHashes
                /\ restoreInput[i].num \in
                      1..Len(chainToDataplaneHashes[restoreInput[i].chain])
                /\ chainToDataplaneHashes[restoreInput[i].chain][restoreInput[i].num]
                      # EmptyHash

\* The restore command on a dataplane that nobody has changed since it was
\* read keeps the foreign rules of every chain the pattern does not match.
C38_Step ==
    (pc = "restore" /\ pc' = "unlock" /\ ~hist.extSinceLoad) =>
        \A c \in DOMAIN dataplane :
            ~ourChainsRegexp(c) =>
                /\ c \in DOMAIN dataplane'
                /\ C30_Foreign(dataplane', c) = C30_Foreign(dataplane, c)

\* C38 as stated: no transaction deletes by position a rule of a non-owned
\* chain whose hash was read as empty, and a restore command that runs on
\* the dataplane as it was read leaves every foreign rule of every
\* non-owned chain in place, in the same order.
C38_Original == []C38_Lines /\ [][C38_Step]_vars

\* Where C38 fails: UpdateChain was called for FORWARD, and the transaction
\* on its way to iptables-restore rewrites FORWARD while the chain holds a
\* foreign rule.
C38_ForeignRuleLost ==
    /\ pc = "restore" /\ ~hist.extSinceLoad
    /\ "FORWARD" \in DOMAIN chainNameToChain
    /\ C30_Foreign(dataplane, "FORWARD") # <<>>
    /\ C30_Foreign(RestoreExec(dataplane, restoreInput).dp, "FORWARD") = <<>>

\* Apply is running.
C39_Running == pc \in {"loop", "lock", "restore", "unlock"}

\* The commands a running Apply has invoked are bounded by its retry
\* counters, and the doubling loop at its start has stopped where its
\* condition is false.
C39_Bounded ==
    /\ hist.restoreCalls <= ApplyRetries + 1
    /\ Len(hist.sleeps) <= ApplyRetries
    /\ Len(hist.saveSleeps) <= SaveRetries
    /\ hist.refreshFeatures <= Len(hist.sleeps) + 1
    /\ pc # "idle" =>
          \/ postWriteInterval = 0
          \/ postWriteInterval >= Hour
          \/ now < lastWriteTime + postWriteInterval

\* C39: where every call of the save and the restore command returns, a
\* call of Apply that has started returns or panics, after at most 11
\* restore commands and, for each of at most 11 reads, at most 4 save
\* commands; the doubling of the post-write interval at its start has
\* stopped.
C39_Terminates ==
    /\ []C39_Bounded
    /\ C39_Running ~> (pc \in {"returned", "panic"})

\* An Apply call has panicked after its restore command failed 11 times.
C39_Witness ==
    /\ pc = "panic"
    /\ hist.restoreCalls = 11
    /\ Len(hist.sleeps) = 10

\* The post-write interval has been doubled to an hour or more.
C40_Stopped == postWriteInterval >= Hour

\* With the interval at an hour or more: the start of Apply leaves the
\* interval alone and invalidates the cache only if the refresh timer is
\* due, so that without a refresh interval a cache in sync stays so; only a
\* restore command that succeeded changes the interval, back to its initial
\* value.
C40_Step ==
    /\ (C40_Stopped /\ pc = "idle" /\ pc' = "loop") =>
          /\ postWriteInterval' = postWriteInterval
          /\ "postWrite" \notin hist'.timers
          /\ (refreshInterval <= 0 \/ now - lastReadTime <= refreshInterval) =>
                inSyncWithDataPlane' = inSyncWithDataPlane
    /\ (C40_Stopped /\ postWriteInterval' # postWriteInterval) =>
          /\ pc = "unlock" /\ ~restoreErr
          /\ postWriteInterval' = initialPostWriteInterval

\* With the interval at an hour or more, the duration Apply returns is that
\* of the refresh timer alone: 0 without a refresh interval.  An Apply call
\* that started without a refresh interval, without a change of the desired
\* state and with the cache in sync has not read the dataplane.
C40_Returned ==
    (pc = "returned" /\ C40_Stopped) =>
        /\ rescheduleAfter =
              Duration(IF refreshInterval > 0
                       THEN refreshInterval - (now - lastReadTime) ELSE 0)
        /\ refreshInterval <= 0 => rescheduleAfter = Duration(0)
        /\ (refreshInterval <= 0 /\ hist.timers = {} /\ ~hist.wrote
               /\ hist.restoreCalls = 0 /\ hist.extSinceLoad /\ hist.everRead
               /\ ~hist.extDuringApply /\ ~hist.changedSinceApply) => ~hist.reloaded

\* C40: once the post-write interval has been doubled to an hour or more,
\* and until a restore command succeeds, the post-write timer neither
\* invalidates the cache at the start of Apply nor enters the duration Apply
\* returns; without a refresh interval Apply returns 0 and does not read the
\* dataplane, so that a change made by another process stays undetected.
C40_RechecksStop == []C40_Returned /\ [][C40_Step]_vars

\* Apply has returned 0 without reading the dataplane, which another
\* process has changed away from the desired content since the last read.
C40_Witness ==
    /\ pc = "returned" /\ C40_Stopped
    /\ refreshInterval = 0
    /\ rescheduleAfter = Duration(0)
    /\ ~hist.reloaded /\ hist.everRead
    /\ hist.extSinceLoad /\ ~hist.extDuringApply
    /\ ~Converged(dataplane)
    /\ now >= lastWriteTime + initialPostWriteInterval

====
